---------------------------- MODULE Spec2Model ----------------------------
(***************************************************************************)
(* A model of the asset pipeline of trinity-tools (internal/assets): the   *)
(* archive store, the shader-script parser, the per-map dependency         *)
(* resolver and the replay (TVD demo) decoder.                             *)
(*                                                                         *)
(* Text (paths, file names, script lines) is a sequence of one-character   *)
(* strings; the bytes of a replay file are integers 0..255.                *)
(***************************************************************************)
EXTENDS Integers, Sequences, FiniteSets, TLC

VARIABLES
    input,          \* arguments of the library call under study
    output,         \* its return value (NotCalled before the call)
    zips,           \* the archives on disk: pk3 path -> sequence of entries
    manifest,       \* Manifest.Games: game -> GameManifest
    written,        \* output archives on disk: output path -> entries
    calls,          \* BuildMapPak calls made so far, with their results
    configstrings,  \* ParseDemo's Replay State Table: index -> value
    stored,         \* history: the (index, value) stores made so far
    pc,             \* ParseDemo's position: header, frames, summary, done
    info            \* the DemoInfo ParseDemo returns

vars == <<input, output, zips, manifest, written, calls,
          configstrings, stored, pc, info>>

-----------------------------------------------------------------------------
(* Strings *)

\* The printable ASCII characters in code order, 32 (space) to 126 (~); the
\* entry of code 96 is a placeholder, the character not being writable here.
ASCII ==
    <<" ", "!", "\"", "#", "$", "%", "&", "'", "(", ")", "*", "+", ",", "-", ".", "/",
      "0", "1", "2", "3", "4", "5", "6", "7", "8", "9", ":", ";", "<", "=", ">", "?",
      "@", "A", "B", "C", "D", "E", "F", "G", "H", "I", "J", "K", "L", "M", "N", "O",
      "P", "Q", "R", "S", "T", "U", "V", "W", "X", "Y", "Z", "[", "\\", "]", "^", "_",
      "BACKTICK", "a", "b", "c", "d", "e", "f", "g", "h", "i", "j", "k", "l", "m", "n", "o",
      "p", "q", "r", "s", "t", "u", "v", "w", "x", "y", "z", "{", "|", "}", "~">>

\* The code of each character of a table that starts at code 32.
CodeOf(table) ==
    [c \in {table[i] : i \in DOMAIN table} |-> 31 + (CHOOSE i \in DOMAIN table : table[i] = c)]

OrdTable == CodeOf(ASCII)

Ord(c) == OrdTable[c]

Chr(n) == ASCII[n - 31]

\* The character of code n in lower case: 'A'..'Z' (65..90) move to 'a'..'z'.
LowerOfCode(c, n) == IF n >= 65 /\ n <= 90 THEN Chr(n + 32) ELSE c

\* strings.ToLower on one ASCII character.
ToLowerCh(c) == LowerOfCode(c, Ord(c))

ToLower(s) == [i \in 1..Len(s) |-> ToLowerCh(s[i])]

HasPrefix(s, p) == Len(s) >= Len(p) /\ SubSeq(s, 1, Len(p)) = p

HasSuffix(s, p) == Len(s) >= Len(p) /\ SubSeq(s, Len(s) - Len(p) + 1, Len(s)) = p

\* Go's string comparison s < t: bytewise lexicographic order.
RECURSIVE StrLess(_, _)
StrLess(s, t) ==
    IF t = <<>> THEN FALSE
    ELSE IF s = <<>> THEN TRUE
    ELSE IF Head(s) = Head(t) THEN StrLess(Tail(s), Tail(t))
    ELSE Ord(Head(s)) < Ord(Head(t))

Range(f) == {f[i] : i \in DOMAIN f}

\* m[k] = v on a Go map.
MapPut(m, k, v) == [x \in DOMAIN m \cup {k} |-> IF x = k THEN v ELSE m[x]]

\* The value a call has not returned yet.
NotCalled == [called |-> FALSE]

-----------------------------------------------------------------------------
(* Archive Store: the archives on disk *)

\* A zip entry is a directory when its name ends in a slash.
IsDir(name) == name /= <<>> /\ name[Len(name)] = "/"

\* zip.OpenReader succeeds on the archives that are on disk.
CanOpen(pk3Path) == pk3Path \in DOMAIN zips

\* Mutant of IndexEntry: an earlier archive's entry is kept (first-write-wins).
IndexEntry_FirstWins(index, f, pk3Path) ==
    IF IsDir(f.Name) \/ ToLower(f.Name) \in DOMAIN index THEN index
    ELSE MapPut(index, ToLower(f.Name), pk3Path)

\* One iteration of BuildFileIndex's loop over r.File.
IndexEntry(index, f, pk3Path) ==
    IF IsDir(f.Name) THEN index
    ELSE MapPut(index, ToLower(f.Name), pk3Path)

RECURSIVE IndexEntries(_, _, _)
IndexEntries(index, files, pk3Path) ==
    IF files = <<>> THEN index
    ELSE IndexEntries(IndexEntry(index, Head(files), pk3Path), Tail(files), pk3Path)

RECURSIVE IndexArchives(_, _)
IndexArchives(index, pk3Paths) ==
    IF pk3Paths = <<>> THEN [err |-> FALSE, index |-> index]
    ELSE IF ~CanOpen(Head(pk3Paths)) THEN [err |-> TRUE, index |-> <<>>]
    ELSE IndexArchives(IndexEntries(index, zips[Head(pk3Paths)], Head(pk3Paths)),
                       Tail(pk3Paths))

BuildFileIndex(pk3Paths) == IndexArchives(<<>>, pk3Paths)

-----------------------------------------------------------------------------
(* Variables a specification does not use stay at these values. *)

HarnessIdle == input = <<>> /\ output = NotCalled
DiskIdle == zips = <<>>
PakIdle == manifest = <<>> /\ written = <<>> /\ calls = <<>>
DemoIdle == configstrings = <<>> /\ stored = <<>> /\ pc = "idle" /\ info = <<>>

-----------------------------------------------------------------------------
(* BuildFileIndex over bounded archive lists *)

\* Longest archive list handed to BuildFileIndex.
MaxArchives == 3

Pak0 == <<"p", "a", "k", "0", ".", "p", "k", "3">>
Pak1 == <<"p", "a", "k", "1", ".", "p", "k", "3">>
ZzPk3 == <<"z", "z", ".", "p", "k", "3">>
GonePk3 == <<"g", "o", "n", "e", ".", "p", "k", "3">>

Entry(name, data) == [Name |-> name, Data |-> data]

\* Entry lists an archive of the index check may hold: the same path in
\* several letter cases, a directory entry, and a file below it.
IndexContents ==
    { <<>>,
      << Entry(<<"a", ".", "t", "g", "a">>, "x") >>,
      << Entry(<<"A", ".", "T", "G", "A">>, "y"), Entry(<<"t", "/">>, "") >>,
      << Entry(<<"t", "/">>, ""), Entry(<<"t", "/", "B">>, "z"),
         Entry(<<"a", ".", "t", "g", "a">>, "w") >>,
      << Entry(<<"t", "/", "b">>, "v"), Entry(<<"T", "/", "b">>, "u") >> }

SeqsUpTo(S, n) == UNION {[1..k -> S] : k \in 0..n}

InitIndex ==
    /\ zips \in [{Pak0, Pak1, ZzPk3} -> IndexContents]
    /\ input \in {[op |-> "BuildFileIndex", pk3Paths |-> l] :
                    l \in SeqsUpTo({Pak0, Pak1, ZzPk3, GonePk3}, MaxArchives)}
    /\ output = NotCalled
    /\ PakIdle /\ DemoIdle

CallBuildFileIndex ==
    /\ input.op = "BuildFileIndex"
    /\ output = NotCalled
    /\ output' = BuildFileIndex(input.pk3Paths)
    /\ UNCHANGED <<input, zips, manifest, written, calls, configstrings, stored, pc, info>>

NextIndex == CallBuildFileIndex

SpecIndex == InitIndex /\ [][NextIndex]_vars

\* The archive holds a non-directory entry whose lowercased name is path.
Provides(pk3Path, path) ==
    /\ pk3Path \in DOMAIN zips
    /\ \E k \in DOMAIN zips[pk3Path] :
          ~IsDir(zips[pk3Path][k].Name) /\ ToLower(zips[pk3Path][k].Name) = path

\* The lowercased names of the non-directory entries of the listed archives.
ProvidedPaths(pk3Paths) ==
    UNION { IF pk3Paths[i] \in DOMAIN zips
            THEN {ToLower(zips[pk3Paths[i]][k].Name) :
                    k \in {k \in DOMAIN zips[pk3Paths[i]] : ~IsDir(zips[pk3Paths[i]][k].Name)}}
            ELSE {} : i \in DOMAIN pk3Paths }

IndexBuilt == input /= <<>> /\ input.op = "BuildFileIndex" /\ output /= NotCalled /\ ~output.err

\* C1: the index BuildFileIndex returns has exactly the lowercased paths of the
\* listed archives' file entries as keys, and maps each to the archive at the
\* last list position whose entries, compared case-insensitively, hold it.
C1_IndexLastArchiveWins ==
    IndexBuilt =>
        LET l == input.pk3Paths
            idx == output.index
        IN /\ DOMAIN idx = ProvidedPaths(l)
           /\ \A p \in DOMAIN idx :
                 /\ p = ToLower(p)
                 /\ \E i \in DOMAIN l :
                       /\ idx[p] = l[i]
                       /\ Provides(l[i], p)
                       /\ \A j \in DOMAIN l : j > i => ~Provides(l[j], p)

\* A path held by two different listed archives under different letter cases,
\* resolved to the later one.
C1_Witness ==
    /\ IndexBuilt
    /\ \E i, j \in DOMAIN input.pk3Paths :
          /\ i < j
          /\ input.pk3Paths[i] /= input.pk3Paths[j]
          /\ \E a \in DOMAIN zips[input.pk3Paths[i]], b \in DOMAIN zips[input.pk3Paths[j]] :
                LET na == zips[input.pk3Paths[i]][a].Name
                    nb == zips[input.pk3Paths[j]][b].Name
                IN /\ na /= nb /\ ~IsDir(na) /\ ToLower(na) = ToLower(nb)
                   /\ output.index[ToLower(na)] = input.pk3Paths[j]

-----------------------------------------------------------------------------
(* IsOfficialPak / IsTrinityPak *)

\* The index of the last slash of s, 0 when it has none.
LastSlash(s) ==
    IF \E i \in DOMAIN s : s[i] = "/"
    THEN CHOOSE i \in DOMAIN s : s[i] = "/" /\ \A j \in DOMAIN s : j > i => s[j] /= "/"
    ELSE 0

RECURSIVE StripTrailingSlashes(_)
StripTrailingSlashes(s) ==
    IF s /= <<>> /\ s[Len(s)] = "/" THEN StripTrailingSlashes(SubSeq(s, 1, Len(s) - 1)) ELSE s

\* filepath.Base: the last element of the path, trailing slashes removed; "."
\* for the empty path and "/" for a path of slashes only.
Base(path) ==
    IF path = <<>> THEN <<".">>
    ELSE LET p == StripTrailingSlashes(path)
         IN IF p = <<>> THEN <<"/">> ELSE SubSeq(p, LastSlash(p) + 1, Len(p))

IsDigit(c) == Ord(c) >= Ord("0") /\ Ord(c) <= Ord("9")

\* Mutant of IsOfficialPak: the length test is dropped, as in a prefix match.
IsOfficialPak_NoLength(filename) ==
    LET lower == ToLower(Base(filename))
    IN /\ Len(lower) >= 8
       /\ HasPrefix(lower, <<"p", "a", "k">>)
       /\ IsDigit(lower[4])
       /\ SubSeq(lower, 5, 8) = <<".", "p", "k", "3">>

IsOfficialPak(filename) ==
    LET lower == ToLower(Base(filename))
    IN IF Len(lower) /= 8 THEN FALSE
       ELSE /\ HasPrefix(lower, <<"p", "a", "k">>)
            /\ IsDigit(lower[4])
            /\ SubSeq(lower, 5, Len(lower)) = <<".", "p", "k", "3">>

IsTrinityPak(filename) ==
    LET lower == ToLower(Base(filename))
    IN IF Len(lower) /= 9 THEN FALSE
       ELSE /\ HasPrefix(lower, <<"p", "a", "k">>)
            /\ IsDigit(lower[4])
            /\ SubSeq(lower, 5, Len(lower)) = <<"t", ".", "p", "k", "3">>

\* File names put together from a directory, a prefix, the character at the
\* digit's place (the digits' neighbours "/" and ":" included), a marker and an
\* extension.
PakNameInputs ==
    { dir \o pre \o dig \o mark \o ext :
        dir \in { <<>>, <<"b", "q", "3", "/">>, <<"p", "a", "k", "0", ".", "p", "k", "3", "/">> },
        pre \in { <<"p", "a", "k">>, <<"P", "a", "K">>, <<"p", "a">>, <<"z", "a", "k">> },
        dig \in { <<"0">>, <<"9">>, <<"5">>, <<"/">>, <<":">>, <<"a">>, <<>> },
        mark \in { <<>>, <<"t">>, <<"T">>, <<"x">>, <<"t", "t">> },
        ext \in { <<".", "p", "k", "3">>, <<".", "P", "K", "3">>, <<".", "p", "k">>,
                  <<".", "p", "k", "3", "/">>, <<".", "p", "k", "3", "x">>, <<>> } }

InitPakName ==
    /\ input \in {[op |-> "ClassifyPak", filename |-> f] : f \in PakNameInputs}
    /\ output = NotCalled
    /\ DiskIdle /\ PakIdle /\ DemoIdle

\* The classification buildGameBaseline makes of one archive name.
CallClassifyPak ==
    /\ input.op = "ClassifyPak"
    /\ output = NotCalled
    /\ output' = [official |-> IsOfficialPak(input.filename),
                  trinity |-> IsTrinityPak(input.filename)]
    /\ UNCHANGED <<input, zips, manifest, written, calls, configstrings, stored, pc, info>>

NextPakName == CallClassifyPak

SpecPakName == InitPakName /\ [][NextPakName]_vars

Digits == {<<ASCII[i]>> : i \in {i \in DOMAIN ASCII : IsDigit(ASCII[i])}}

Classified == input /= <<>> /\ input.op = "ClassifyPak" /\ output /= NotCalled

\* C4 as stated, the name's own letters compared: official iff the base name is
\* "pak", a digit and ".pk3"; override iff it is "pak", a digit and "t.pk3";
\* never both.
C4_AsStated ==
    Classified =>
        LET base == Base(input.filename)
        IN /\ output.official <=>
                (Len(base) = 8 /\ \E dg \in Digits : base = <<"p", "a", "k">> \o dg \o <<".", "p", "k", "3">>)
           /\ output.trinity <=>
                (Len(base) = 9 /\ \E dg \in Digits : base = <<"p", "a", "k">> \o dg \o <<"t", ".", "p", "k", "3">>)
           /\ ~(output.official /\ output.trinity)

\* C4 (amended): with the base name lowercased first, official iff it is "pak",
\* a digit and ".pk3" (8 characters); override iff it is "pak", a digit and
\* "t.pk3" (9 characters); no file name is both.
C4_PakClassification ==
    Classified =>
        LET base == ToLower(Base(input.filename))
        IN /\ output.official <=>
                (Len(base) = 8 /\ \E dg \in Digits : base = <<"p", "a", "k">> \o dg \o <<".", "p", "k", "3">>)
           /\ output.trinity <=>
                (Len(base) = 9 /\ \E dg \in Digits : base = <<"p", "a", "k">> \o dg \o <<"t", ".", "p", "k", "3">>)
           /\ ~(output.official /\ output.trinity)

\* An upper-case official name below a directory has been classified.
C4_Witness ==
    /\ Classified
    /\ output.official
    /\ Base(input.filename) /= input.filename
    /\ ToLower(Base(input.filename)) /= Base(input.filename)

-----------------------------------------------------------------------------
(* WritePk3 / WritePk3ToWriter *)

\* Most entries in a file set handed to WritePk3.
MaxFiles == 3

RECURSIVE InsertSorted(_, _)
InsertSorted(sorted, k) ==
    IF sorted = <<>> THEN <<k>>
    ELSE IF StrLess(k, Head(sorted)) THEN <<k>> \o sorted
    ELSE <<Head(sorted)>> \o InsertSorted(Tail(sorted), k)

RECURSIVE SortInto(_, _)
SortInto(sorted, keys) ==
    IF keys = <<>> THEN sorted ELSE SortInto(InsertSorted(sorted, Head(keys)), Tail(keys))

\* Mutant of SortStrings: the keys are left in the order the map yielded them.
SortStrings_Unsorted(keys) == keys

\* sort.Strings: the keys in ascending order.
SortStrings(keys) == SortInto(<<>>, keys)

\* The orders in which ranging over a Go map may yield its keys: any.
RangeOrders(m) ==
    {o \in [1..Cardinality(DOMAIN m) -> DOMAIN m] :
        \A i, j \in 1..Cardinality(DOMAIN m) : i /= j => o[i] /= o[j]}

\* The archive WritePk3ToWriter emits when ranging over files yields its keys
\* in the order keys: one deflated entry per sorted key.
WritePk3ToWriter(files, keys) ==
    LET sorted == SortStrings(keys)
    IN [i \in 1..Len(sorted) |->
            [Name |-> sorted[i], Method |-> "Deflate", Data |-> files[sorted[i]]]]

Out1 == <<"o", "u", "t", "1", ".", "p", "k", "3">>
Out2 == <<"o", "u", "t", "2", ".", "p", "k", "3">>

\* Entry names of the file sets: prefixes of one another, and letters of both
\* cases, which sort before and after the punctuation.
ZipNames ==
    { <<"a">>, <<"a", "/", "b">>, <<"a", "b">>, <<"B">>, <<"b">> }

ZipFileSets ==
    UNION { [d -> {"x", "y"}] : d \in {d \in SUBSET ZipNames : Cardinality(d) <= MaxFiles} }

InitZip ==
    /\ input \in {[op |-> "WritePk3", files |-> f] : f \in ZipFileSets}
    /\ output = NotCalled
    /\ written = <<>>
    /\ calls = <<>>
    /\ manifest = <<>>
    /\ DiskIdle /\ DemoIdle

\* WritePk3(outputPath, input.files).
CallWritePk3(outputPath) ==
    /\ input.op = "WritePk3"
    /\ outputPath \notin DOMAIN written
    /\ \E keys \in RangeOrders(input.files) :
          /\ written' = MapPut(written, outputPath, WritePk3ToWriter(input.files, keys))
          /\ calls' = Append(calls, [op |-> "WritePk3", outputPath |-> outputPath, keys |-> keys])
    /\ UNCHANGED <<input, output, zips, manifest, configstrings, stored, pc, info>>

NextZip == \E outputPath \in {Out1, Out2} : CallWritePk3(outputPath)

SpecZip == InitZip /\ [][NextZip]_vars

\* C6: every archive written from the file set holds exactly its paths, each
\* once, in ascending path order and deflated, with the set's bytes; so two
\* archives written from the same set are identical whatever order the map
\* yielded its keys in.
C6_WriteDeterministic ==
    (input /= <<>> /\ input.op = "WritePk3") =>
        /\ \A p \in DOMAIN written :
              LET a == written[p]
              IN /\ {a[i].Name : i \in DOMAIN a} = DOMAIN input.files
                 /\ \A i \in DOMAIN a :
                       /\ a[i].Method = "Deflate"
                       /\ a[i].Data = input.files[a[i].Name]
                       /\ i < Len(a) => StrLess(a[i].Name, a[i + 1].Name)
        /\ \A p, q \in DOMAIN written : written[p] = written[q]

\* Two archives written from a set of at least two paths, the map having
\* yielded its keys in two different orders.
C6_Witness ==
    /\ Len(calls) = 2
    /\ calls[1].op = "WritePk3"
    /\ calls[1].keys /= calls[2].keys
    /\ DOMAIN written = {Out1, Out2}
    /\ Len(written[Out1]) >= 2

-----------------------------------------------------------------------------
(* Shader Script Parser *)

IsSpace(c) == c \in {" ", "\t", "\r"}

RECURSIVE TrimLeft(_)
TrimLeft(s) == IF s /= <<>> /\ IsSpace(Head(s)) THEN TrimLeft(Tail(s)) ELSE s

RECURSIVE TrimRight(_)
TrimRight(s) ==
    IF s /= <<>> /\ IsSpace(s[Len(s)]) THEN TrimRight(SubSeq(s, 1, Len(s) - 1)) ELSE s

\* strings.TrimSpace
TrimSpace(s) == TrimRight(TrimLeft(s))

\* strings.Index, counted from 1: the first place sub occurs in s, 0 if none.
IndexOf(s, sub) ==
    LET hits == {i \in 1..(Len(s) - Len(sub) + 1) : SubSeq(s, i, i + Len(sub) - 1) = sub}
    IN IF hits = {} THEN 0 ELSE CHOOSE i \in hits : \A j \in hits : i <= j

\* strings.IndexAny, counted from 1.
IndexAny(s, chars) ==
    LET hits == {i \in DOMAIN s : s[i] \in chars}
    IN IF hits = {} THEN 0 ELSE CHOOSE i \in hits : \A j \in hits : i <= j

\* strings.Fields: the maximal runs of non-space characters.
RECURSIVE Fields(_)
Fields(s) ==
    LET t == TrimLeft(s)
    IN IF t = <<>> THEN <<>>
       ELSE LET sp == IndexAny(t, {" ", "\t", "\r"})
            IN IF sp = 0 THEN <<t>>
               ELSE <<SubSeq(t, 1, sp - 1)>> \o Fields(SubSeq(t, sp, Len(t)))

\* The comment loop of ParseShaderScript on one line: the line without its
\* comments, and whether a block comment is left open.
RECURSIVE StripComments(_)
StripComments(line) ==
    LET slashSlash == IndexOf(line, <<"/", "/">>)
        slashStar == IndexOf(line, <<"/", "*">>)
    IN IF slashStar > 0 /\ (slashSlash = 0 \/ slashStar < slashSlash)
       THEN LET rest == SubSeq(line, slashStar + 2, Len(line))
                endIdx == IndexOf(rest, <<"*", "/">>)
            IN IF endIdx > 0
               THEN StripComments(SubSeq(line, 1, slashStar - 1)
                                  \o SubSeq(rest, endIdx + 2, Len(rest)))
               ELSE [line |-> SubSeq(line, 1, slashStar - 1), inBlockComment |-> TRUE]
       ELSE IF slashSlash > 0
       THEN [line |-> SubSeq(line, 1, slashSlash - 1), inBlockComment |-> FALSE]
       ELSE [line |-> line, inBlockComment |-> FALSE]

NotDollar(path) == ~HasPrefix(path, <<"$">>)

MapDirectives ==
    { <<"m", "a", "p">>, <<"c", "l", "a", "m", "p", "m", "a", "p">>, <<"d", "i", "f", "f", "u", "s", "e", "m", "a", "p">>, <<"n", "o", "r", "m", "a", "l", "m", "a", "p">>, <<"s", "p", "e", "c", "u", "l", "a", "r", "m", "a", "p">> }

SkySuffixes == << <<"_", "r", "t">>, <<"_", "l", "f">>, <<"_", "b", "k">>, <<"_", "f", "t">>, <<"_", "u", "p">>, <<"_", "d", "n">> >>

\* Mutant of DirectiveTextures: animmap's frame rate is taken for a texture.
DirectiveTextures_AnimRate(tokens) ==
    LET directive == ToLower(tokens[1])
    IN IF directive \in MapDirectives
       THEN IF Len(tokens) >= 2 /\ NotDollar(tokens[2]) THEN <<tokens[2]>> ELSE <<>>
       ELSE IF directive = <<"a", "n", "i", "m", "m", "a", "p">>
       THEN IF Len(tokens) >= 2 THEN SelectSeq(SubSeq(tokens, 2, Len(tokens)), NotDollar) ELSE <<>>
       ELSE IF directive = <<"s", "k", "y", "p", "a", "r", "m", "s">>
       THEN IF Len(tokens) >= 2 /\ tokens[2] /= <<"-">>
            THEN [i \in 1..Len(SkySuffixes) |-> tokens[2] \o SkySuffixes[i]]
            ELSE <<>>
       ELSE <<>>

\* The switch on the directive: the texture references one content segment
\* inside a definition adds.
DirectiveTextures(tokens) ==
    LET directive == ToLower(tokens[1])
    IN IF directive \in MapDirectives
       THEN IF Len(tokens) >= 2 /\ NotDollar(tokens[2]) THEN <<tokens[2]>> ELSE <<>>
       ELSE IF directive = <<"a", "n", "i", "m", "m", "a", "p">>
       THEN IF Len(tokens) >= 3 THEN SelectSeq(SubSeq(tokens, 3, Len(tokens)), NotDollar) ELSE <<>>
       ELSE IF directive = <<"s", "k", "y", "p", "a", "r", "m", "s">>
       THEN IF Len(tokens) >= 2 /\ tokens[2] /= <<"-">>
            THEN [i \in 1..Len(SkySuffixes) |-> tokens[2] \o SkySuffixes[i]]
            ELSE <<>>
       ELSE <<>>

\* current = nil
NoDef == [set |-> FALSE]

ShaderDef(name, textures) == [set |-> TRUE, Name |-> name, Textures |-> textures]

\* The brace-and-content loop of ParseShaderScript on one comment-free,
\* trimmed line; st holds shaders, current and depth.
RECURSIVE ScanLine(_, _)
ScanLine(st, line) ==
    IF line = <<>> THEN st
    ELSE IF Head(line) = "{"
    THEN ScanLine([st EXCEPT !.depth = @ + 1], TrimSpace(Tail(line)))
    ELSE IF Head(line) = "}"
    THEN LET depth == st.depth - 1
         IN ScanLine(IF depth = 0 /\ st.current.set
                     THEN [shaders |-> Append(st.shaders, st.current),
                           current |-> NoDef, depth |-> depth]
                     ELSE [st EXCEPT !.depth = depth],
                     TrimSpace(Tail(line)))
    ELSE LET idx == IndexAny(line, {"{", "}"})
             content == IF idx > 0 THEN TrimSpace(SubSeq(line, 1, idx - 1)) ELSE line
             rest == IF idx > 0 THEN SubSeq(line, idx, Len(line)) ELSE <<>>
         IN IF content = <<>> THEN ScanLine(st, rest)
            ELSE IF st.depth = 0
            THEN ScanLine([st EXCEPT !.current = ShaderDef(content, <<>>)], rest)
            ELSE IF ~st.current.set THEN ScanLine(st, rest)
            ELSE IF Fields(content) = <<>> THEN ScanLine(st, rest)
            ELSE ScanLine([st EXCEPT !.current.Textures = @ \o DirectiveTextures(Fields(content))],
                          rest)

\* One iteration of the loop over the scanner's lines; st also holds
\* inBlockComment.
ParseLine(st, text) ==
    LET closing == IndexOf(text, <<"*", "/">>)
    IN IF st.inBlockComment /\ closing = 0 THEN st
       ELSE LET line == IF st.inBlockComment THEN SubSeq(text, closing + 2, Len(text)) ELSE text
                stripped == StripComments(line)
                trimmed == TrimSpace(stripped.line)
                scanned == ScanLine([shaders |-> st.shaders, current |-> st.current,
                                     depth |-> st.depth], trimmed)
            IN [shaders |-> scanned.shaders, current |-> scanned.current,
                depth |-> scanned.depth, inBlockComment |-> stripped.inBlockComment]

RECURSIVE ParseLines(_, _)
ParseLines(st, lines) ==
    IF lines = <<>> THEN st ELSE ParseLines(ParseLine(st, Head(lines)), Tail(lines))

\* ParseShaderScript on the lines the scanner yields: the definitions committed.
ParseShaderScript(lines) ==
    ParseLines([shaders |-> <<>>, current |-> NoDef, depth |-> 0, inBlockComment |-> FALSE],
               lines).shaders

-----------------------------------------------------------------------------
(* ParseShaderScript over synthetic scripts *)

\* Most items (directives and starts of a further definition) in a script.
MaxItems == 3

\* Directive lines, whether the line stands inside a stage (a nested brace
\* block), and the texture references the directive declares.
Directives ==
    << [text |-> <<"m", "a", "p", " ", "t", "/", "a", ".", "t", "g", "a">>, stage |-> TRUE, textures |-> << <<"t", "/", "a", ".", "t", "g", "a">> >>],
       [text |-> <<"m", "a", "p", " ", "$", "l", "i", "g", "h", "t", "m", "a", "p">>, stage |-> TRUE, textures |-> <<>>],
       [text |-> <<"c", "l", "a", "m", "p", "M", "a", "p", " ", "t", "/", "b">>, stage |-> TRUE, textures |-> << <<"t", "/", "b">> >>],
       [text |-> <<"a", "n", "i", "m", "M", "a", "p", " ", "1", "0", " ", "t", "/", "c", " ", "$", "w", " ", "t", "/", "d">>, stage |-> TRUE,
        textures |-> << <<"t", "/", "c">>, <<"t", "/", "d">> >>],
       [text |-> <<"s", "k", "y", "p", "a", "r", "m", "s", " ", "e", "n", "v", "/", "s", " ", "-", " ", "-">>, stage |-> FALSE,
        textures |-> << <<"e", "n", "v", "/", "s", "_", "r", "t">>, <<"e", "n", "v", "/", "s", "_", "l", "f">>, <<"e", "n", "v", "/", "s", "_", "b", "k">>,
                        <<"e", "n", "v", "/", "s", "_", "f", "t">>, <<"e", "n", "v", "/", "s", "_", "u", "p">>, <<"e", "n", "v", "/", "s", "_", "d", "n">> >>],
       [text |-> <<"s", "k", "y", "p", "a", "r", "m", "s", " ", "-", " ", "5", "1", "2", " ", "-">>, stage |-> FALSE, textures |-> <<>>],
       [text |-> <<"q", "e", "r", "_", "e", "d", "i", "t", "o", "r", "i", "m", "a", "g", "e", " ", "t", "/", "e", ".", "t", "g", "a">>, stage |-> FALSE, textures |-> <<>>] >>

\* An item of a synthetic script: a directive, or the start of the next definition.
NewDef == Len(Directives) + 1
Items == {NewDef} \cup DOMAIN Directives

\* The name of the k-th definition of a synthetic script.
DefName(k) == <<"t", "/", "s">> \o <<Chr(Ord("0") + k)>>

Styles == {"plain", "compact", "oneline", "linecomments", "blockcomments"}

OpenLines(style, name) ==
    CASE style = "plain" -> << name, <<"{">> >>
      [] style = "compact" -> << name, <<"{", " ">> >>
      [] style = "oneline" -> << name \o <<" ", "{">> >>
      [] style = "linecomments" ->
            << <<"/", "/", " ", "t", "/", "h", "i", "d", " ", "{", " ", "m", "a", "p", " ", "t", "/", "h", "i", "d", ".", "t", "g", "a", " ", "}">>, name \o <<" ", "/", "/", " ", "t", "/", "h", "i", "d">>,
               <<"{", " ", "/", "/", " ", "{", " ", "m", "a", "p", " ", "t", "/", "h", "i", "d", ".", "t", "g", "a">> >>
      [] style = "blockcomments" ->
            << <<"/", "*", " ", "t", "/", "h", "i", "d">>, <<"{", " ", "m", "a", "p", " ", "t", "/", "h", "i", "d", ".", "t", "g", "a", " ", "}">>, <<"*", "/">>,
               <<"/", "*", " ", "{", " ", "*", "/", " ">> \o name \o <<" ", "/", "*", " ", "m", "a", "p", " ", "t", "/", "h", "i", "d", ".", "t", "g", "a">>, <<"}", " ", "*", "/", " ", "{">> >>

StageLines(style, text) ==
    CASE style = "plain" ->
            << <<"\t">> \o <<"{">>, <<"\t", "\t">> \o text, <<"\t">> \o <<"}">> >>
      [] style = "compact" -> << <<"{", " ">> \o text, <<"}">> >>
      [] style = "oneline" -> << <<"{", " ">> \o text \o <<" ", "}">> >>
      [] style = "linecomments" ->
            << <<"{", " ", "/", "/", " ", "}">>, text \o <<" ", "/", "/", " ", "m", "a", "p", " ", "t", "/", "h", "i", "d", ".", "t", "g", "a">>, <<"}", " ", "/", "/", " ", "{">> >>
      [] style = "blockcomments" ->
            << <<"{", " ", "/", "*", " ", "}", " ", "/", "/", " ", "*", "/", " ">> \o text \o <<" ", "/", "*", " ", "m", "a", "p", " ", "t", "/", "h", "i", "d", ".", "t", "g", "a", " ", "*", "/", " ", "}">> >>

TopLines(style, text) ==
    CASE style = "plain" -> << <<"\t">> \o text >>
      [] style = "compact" -> << text >>
      [] style = "oneline" -> << text >>
      [] style = "linecomments" -> << <<"/", "/", " ", "m", "a", "p", " ", "t", "/", "h", "i", "d", ".", "t", "g", "a">>, text \o <<"/", "/", "}">> >>
      [] style = "blockcomments" ->
            << <<"/", "*">>, <<"m", "a", "p", " ", "t", "/", "h", "i", "d", ".", "t", "g", "a">>, <<"*", "/", " ">> \o text \o <<" ", "/", "*", "*", "/">> >>

CloseLines(style) ==
    CASE style = "plain" -> << <<"}">>, <<>> >>
      [] style = "compact" -> << <<"}">> >>
      [] style = "oneline" -> << <<"}">> >>
      [] style = "linecomments" -> << <<"}", " ", "/", "/", " ", "}">> >>
      [] style = "blockcomments" -> << <<"/", "*", " ", "}", " ", "*", "/", " ", "}", " ", "/", "/", " ", "/", "*", " ">> >>

\* The lines of the synthetic script: definition k is open, items follow.
RECURSIVE RenderFrom(_, _, _)
RenderFrom(style, k, items) ==
    IF items = <<>> THEN CloseLines(style)
    ELSE IF Head(items) = NewDef
    THEN CloseLines(style) \o OpenLines(style, DefName(k + 1))
         \o RenderFrom(style, k + 1, Tail(items))
    ELSE LET d == Directives[Head(items)]
         IN (IF d.stage THEN StageLines(style, d.text) ELSE TopLines(style, d.text))
            \o RenderFrom(style, k, Tail(items))

Render(style, items) == OpenLines(style, DefName(1)) \o RenderFrom(style, 1, items)

\* The definitions the synthetic script declares, with the texture references
\* of their directives in source order.
RECURSIVE ExpectedFrom(_, _)
ExpectedFrom(defs, items) ==
    IF items = <<>> THEN defs
    ELSE IF Head(items) = NewDef
    THEN ExpectedFrom(Append(defs, ShaderDef(DefName(Len(defs) + 1), <<>>)), Tail(items))
    ELSE ExpectedFrom([defs EXCEPT ![Len(defs)].Textures = @ \o Directives[Head(items)].textures],
                      Tail(items))

Expected(items) == ExpectedFrom(<<ShaderDef(DefName(1), <<>>)>>, items)

InitShader ==
    /\ input \in {[op |-> "ParseShaderScript", style |-> st, items |-> it,
                   lines |-> Render(st, it)] :
                    st \in Styles, it \in SeqsUpTo(Items, MaxItems)}
    /\ output = NotCalled
    /\ DiskIdle /\ PakIdle /\ DemoIdle

CallParseShaderScript ==
    /\ input.op = "ParseShaderScript"
    /\ output = NotCalled
    /\ output' = [defs |-> ParseShaderScript(input.lines)]
    /\ UNCHANGED <<input, zips, manifest, written, calls, configstrings, stored, pc, info>>

NextShader == CallParseShaderScript

SpecShader == InitShader /\ [][NextShader]_vars

ShaderParsed == input /= <<>> /\ input.op = "ParseShaderScript" /\ output /= NotCalled

\* C5: for a synthetic script (definitions with map, clampmap, animmap and
\* skyparms directives, "$" tokens and ignored directives, written plainly,
\* with braces sharing lines with names and directives, with "//" comments or
\* with block comments, some spanning lines, that hold directives and braces),
\* ParseShaderScript returns the script's definitions, each with exactly its
\* directives' texture references in source order.
C5_ShaderRoundTrip ==
    ShaderParsed => output.defs = Expected(input.items)

\* A script with block comments that span lines and hold directives, whose
\* definitions declare an animmap and a "$" token, has been parsed.
C5_Witness ==
    /\ ShaderParsed
    /\ input.style = "blockcomments"
    /\ Len(output.defs) = 2
    /\ \E i, j \in DOMAIN input.items : input.items[i] = 4 /\ input.items[j] = 2
    /\ \E k \in DOMAIN output.defs : Len(output.defs[k].Textures) = 2

-----------------------------------------------------------------------------
(* Dependency Resolver *)

\* The entry ReadFileFromPk3 returns: the first of the archive whose
\* lowercased name is the lowercased path.
FirstEntry(pk3Path, virtualPath) ==
    LET First(files, hits) ==
            IF hits = {} THEN [err |-> TRUE]
            ELSE [err |-> FALSE, data |-> files[CHOOSE i \in hits : \A j \in hits : i <= j].Data]
    IN First(zips[pk3Path],
             {i \in DOMAIN zips[pk3Path] : ToLower(zips[pk3Path][i].Name) = ToLower(virtualPath)})

ReadFileFromPk3(pk3Path, virtualPath) ==
    IF ~CanOpen(pk3Path) THEN [err |-> TRUE] ELSE FirstEntry(pk3Path, virtualPath)

readFileFromIndex(path, fileIndex) ==
    LET Read(lower) ==
            IF lower \notin DOMAIN fileIndex THEN [err |-> TRUE]
            ELSE ReadFileFromPk3(fileIndex[lower], lower)
    IN Read(ToLower(path))

\* The contents of a compiled map are modelled by the reference lists ParseBSP
\* decodes from them; any other contents fail the parse.
ParseBSP(data) ==
    IF data.type = "bsp"
    THEN [err |-> FALSE, Shaders |-> data.Shaders, Models |-> data.Models,
          Sounds |-> data.Sounds, Music |-> data.Music]
    ELSE [err |-> TRUE]

\* The contents of a model are modelled by the shader names ParseMD3Shaders
\* decodes from them.
ParseMD3Shaders(data) ==
    IF data.type = "md3" THEN [err |-> FALSE, shaders |-> data.Shaders] ELSE [err |-> TRUE]

textureExtensions == << <<".", "t", "g", "a">>, <<".", "j", "p", "g">>, <<".", "p", "n", "g">> >>

NotFound == [ok |-> FALSE, path |-> <<>>]

\* The probing that returns the last extension found.
resolveWithExtensions_Last(base, fileIndex) ==
    LET First(hits) ==
            IF hits = {} THEN NotFound
            ELSE [ok |-> TRUE,
                  path |-> base \o textureExtensions[CHOOSE i \in hits : \A j \in hits : i >= j]]
    IN First({i \in DOMAIN textureExtensions : (base \o textureExtensions[i]) \in DOMAIN fileIndex})

resolveWithExtensions(base, fileIndex) ==
    LET First(hits) ==
            IF hits = {} THEN NotFound
            ELSE [ok |-> TRUE,
                  path |-> base \o textureExtensions[CHOOSE i \in hits : \A j \in hits : i <= j]]
    IN First({i \in DOMAIN textureExtensions : (base \o textureExtensions[i]) \in DOMAIN fileIndex})

ResolveTexture(path, fileIndex) ==
    LET Stripped(lower, ext) == SubSeq(lower, 1, Len(lower) - Len(ext))
        Try(lower, exts) ==
            IF exts /= {}
            THEN IF lower \in DOMAIN fileIndex THEN [ok |-> TRUE, path |-> lower]
                 ELSE resolveWithExtensions(
                          Stripped(lower, textureExtensions[CHOOSE i \in exts : \A j \in exts : i <= j]),
                          fileIndex)
            ELSE resolveWithExtensions(lower, fileIndex)
        Resolve(lower) ==
            Try(lower, {i \in DOMAIN textureExtensions : HasSuffix(lower, textureExtensions[i])})
    IN Resolve(ToLower(path))

\* needed[resolved] = true for the texture reference, if it resolves.
AddTexture(needed, tex, gm) ==
    LET Add(r) == IF r.ok THEN needed \cup {r.path} ELSE needed
    IN Add(ResolveTexture(tex, gm.FileIndex))

RECURSIVE AddTextures(_, _, _)
AddTextures(needed, textures, gm) ==
    IF textures = <<>> THEN needed
    ELSE AddTextures(AddTexture(needed, Head(textures), gm), Tail(textures), gm)

\* Mutant of AddScriptFile: the script file is left out of the need-set.
AddScriptFile_Skipped(needed, lower, gm) == needed

\* The script file of a known shader joins the need-set.
AddScriptFile(needed, lower, gm) ==
    IF lower \in DOMAIN gm.ShaderFiles THEN needed \cup {gm.ShaderFiles[lower]} ELSE needed

\* The resolution that takes a definition without references for one with
\* nothing to add but its script file.
resolveShaderTextures_NoImplicit(shaderName, gm, needed) ==
    LET Defined(textures, lower) == AddScriptFile(AddTextures(needed, textures, gm), lower, gm)
        Resolve(lower) ==
            IF lower \in DOMAIN gm.Shaders THEN Defined(gm.Shaders[lower], lower)
            ELSE AddTexture(needed, lower, gm)
    IN Resolve(ToLower(shaderName))

resolveShaderTextures(shaderName, gm, needed) ==
    LET Implicit(n1, textures, lower) ==
            IF Len(textures) = 0 THEN AddTexture(n1, lower, gm) ELSE n1
        Defined(textures, lower) ==
            AddScriptFile(Implicit(AddTextures(needed, textures, gm), textures, lower), lower, gm)
        Resolve(lower) ==
            IF lower \in DOMAIN gm.Shaders THEN Defined(gm.Shaders[lower], lower)
            ELSE AddTexture(needed, lower, gm)
    IN Resolve(ToLower(shaderName))

RECURSIVE ResolveShaders(_, _, _)
ResolveShaders(shaderNames, gm, needed) ==
    IF shaderNames = <<>> THEN needed
    ELSE ResolveShaders(Tail(shaderNames), gm, resolveShaderTextures(Head(shaderNames), gm, needed))

resolveModel(modelPath, gm, needed) ==
    LET Parse(read) == IF read.err THEN [err |-> TRUE] ELSE ParseMD3Shaders(read.data)
        Refs(parsed, lower) ==
            IF parsed.err THEN needed \cup {lower}
            ELSE ResolveShaders(parsed.shaders, gm, needed \cup {lower})
        Resolve(lower) ==
            IF lower \notin DOMAIN gm.FileIndex THEN needed
            ELSE Refs(Parse(readFileFromIndex(lower, gm.FileIndex)), lower)
    IN Resolve(ToLower(modelPath))

RECURSIVE ResolveModels(_, _, _)
ResolveModels(modelPaths, gm, needed) ==
    IF modelPaths = <<>> THEN needed
    ELSE ResolveModels(Tail(modelPaths), gm, resolveModel(Head(modelPaths), gm, needed))

\* Steps 5 and 6 of BuildMapPak: the lowercased sound or music paths that are
\* in the index.
AddIndexed(needed, paths, gm) ==
    needed \cup {ToLower(paths[i]) : i \in {i \in DOMAIN paths : ToLower(paths[i]) \in DOMAIN gm.FileIndex}}

\* Step 9: the first of levelshots/<mapName>.jpg, .tga that is in the index.
AddLevelshot(needed, mapName, gm) ==
    LET jpg == <<"l", "e", "v", "e", "l", "s", "h", "o", "t", "s", "/">> \o mapName \o <<".", "j", "p", "g">>
        tga == <<"l", "e", "v", "e", "l", "s", "h", "o", "t", "s", "/">> \o mapName \o <<".", "t", "g", "a">>
    IN IF jpg \in DOMAIN gm.FileIndex THEN needed \cup {jpg}
       ELSE IF tga \in DOMAIN gm.FileIndex THEN needed \cup {tga}
       ELSE needed

\* Step 10: scripts/<mapName>.arena, if it is in the index.
AddArena(needed, mapName, gm) ==
    LET arenaPath == <<"s", "c", "r", "i", "p", "t", "s", "/">> \o mapName \o <<".", "a", "r", "e", "n", "a">>
    IN IF arenaPath \in DOMAIN gm.FileIndex THEN needed \cup {arenaPath} ELSE needed

\* Steps 3 to 10: the need-set resolution accumulates from the parsed map.
ResolveNeeded(mapName, lowerBSP, bspAssets, gm) ==
    LET Sounds(n4) == AddIndexed(n4, bspAssets.Sounds, gm)
        Music(n5) == AddIndexed(n5, bspAssets.Music, gm)
        Models(n3) == ResolveModels(bspAssets.Models, gm, n3)
    IN AddArena(AddLevelshot(Music(Sounds(Models(
           ResolveShaders(bspAssets.Shaders, gm, {lowerBSP})))), mapName, gm), mapName, gm)

\* Mutant of ExcludeBaseline: the baseline paths are left in the need-set.
ExcludeBaseline_Kept(needed, gm) == needed

\* Step 11: the need-set without the paths of the game's Baseline Set.
ExcludeBaseline(needed, gm) == {p \in needed : p \notin gm.BaselineFiles}

\* Mutant of ExtractFilesFromPk3s: an entry matches a wanted path only when
\* its name is the path letter for letter.
ExtractFilesFromPk3s_ExactCase(paths, fileIndex) ==
    LET Exact(p) == {i \in DOMAIN zips[fileIndex[p]] : zips[fileIndex[p]][i].Name = p}
        Extract(known) ==
            IF \E p \in known : ~CanOpen(fileIndex[p]) THEN [err |-> TRUE]
            ELSE [err |-> FALSE,
                  files |-> [p \in {x \in known : Exact(x) /= {}} |->
                                zips[fileIndex[p]][CHOOSE i \in Exact(p) : \A j \in Exact(p) : i <= j].Data]]
    IN Extract({ToLower(p) : p \in {x \in paths : ToLower(x) \in DOMAIN fileIndex}})

\* ExtractFilesFromPk3s: the bytes of the paths the index knows, each read from
\* the first matching entry of its archive; err if an archive does not open.
ExtractFilesFromPk3s(paths, fileIndex) ==
    LET Found(known) == {p \in known : CanOpen(fileIndex[ToLower(p)])
                                       /\ ~FirstEntry(fileIndex[ToLower(p)], p).err}
        Extract(known) ==
            IF \E p \in known : ~CanOpen(fileIndex[ToLower(p)]) THEN [err |-> TRUE]
            ELSE [err |-> FALSE,
                  files |-> [p \in {ToLower(x) : x \in Found(known)} |->
                                FirstEntry(fileIndex[p], p).data]]
    IN Extract({p \in paths : ToLower(p) \in DOMAIN fileIndex})

\* One order in which ranging over the keys of a Go map may yield them.
RECURSIVE SomeOrder(_)
SomeOrder(keys) ==
    IF keys = {} THEN <<>>
    ELSE LET k == CHOOSE k \in keys : TRUE IN <<k>> \o SomeOrder(keys \ {k})

\* What BuildMapPak returns and leaves behind: its error, the need-set before
\* and after the baseline is taken out, and the archive it wrote, if any.
MapPakResult(ret, resolved, needed, wrote, archive) ==
    [ret |-> ret, resolved |-> resolved, needed |-> needed, wrote |-> wrote, archive |-> archive]

\* Mutant of BspNotFound: a missing map is taken for one without dependencies.
BspNotFound_Nil(bspPath) == MapPakResult("ok", {}, {}, FALSE, <<>>)

\* BuildMapPak's return when the map's BSP is not in the index.
BspNotFound(bspPath) == MapPakResult("BSP not found", {}, {}, FALSE, <<>>)

\* Mutant of NothingNeeded: an archive without entries is written.
NothingNeeded_Written(resolved) == MapPakResult("ok", resolved, {}, TRUE, <<>>)

\* BuildMapPak's return when step 11 leaves the need-set empty.
NothingNeeded(resolved) == MapPakResult("ok", resolved, {}, FALSE, <<>>)

BuildMapPakResult(mapName, game, mf) ==
    LET Written(resolved, needed, extracted) ==
            IF needed = {} THEN NothingNeeded(resolved)
            ELSE IF extracted.err
            THEN MapPakResult("extract files", resolved, needed, FALSE, <<>>)
            ELSE MapPakResult("ok", resolved, needed, TRUE,
                     WritePk3ToWriter(extracted.files, SomeOrder(DOMAIN extracted.files)))
        Extracted(resolved, needed, gm) ==
            Written(resolved, needed, ExtractFilesFromPk3s(needed, gm.FileIndex))
        Resolved(resolved, gm) == Extracted(resolved, ExcludeBaseline(resolved, gm), gm)
        Parsed(bspAssets, lowerBSP, gm) ==
            IF bspAssets.err THEN MapPakResult("parse BSP", {}, {lowerBSP}, FALSE, <<>>)
            ELSE Resolved(ResolveNeeded(mapName, lowerBSP, bspAssets, gm), gm)
        Read(read, lowerBSP, gm) ==
            IF read.err THEN MapPakResult("read BSP", {}, {lowerBSP}, FALSE, <<>>)
            ELSE Parsed(ParseBSP(read.data), lowerBSP, gm)
        Found(bspPath, lowerBSP, gm) ==
            IF lowerBSP \notin DOMAIN gm.FileIndex THEN BspNotFound(bspPath)
            ELSE Read(readFileFromIndex(lowerBSP, gm.FileIndex), lowerBSP, gm)
        Build(bspPath, gm) == Found(bspPath, ToLower(bspPath), gm)
    IN IF game \notin DOMAIN mf THEN MapPakResult("game not found", {}, {}, FALSE, <<>>)
       ELSE Build(<<"m", "a", "p", "s", "/">> \o mapName \o <<".", "b", "s", "p">>, mf[game])

-----------------------------------------------------------------------------
(* Baseline Builder *)

baselinePrefixes ==
    << <<"g", "f", "x", "/">>, <<"s", "p", "r", "i", "t", "e", "s", "/">>, <<"i", "c", "o", "n", "s", "/">>, <<"f", "o", "n", "t", "s", "/">>, <<"m", "e", "n", "u", "/">>, <<"u", "i", "/">>,
       <<"b", "o", "t", "f", "i", "l", "e", "s", "/">>, <<"m", "o", "d", "e", "l", "s", "/", "w", "e", "a", "p", "o", "n", "s", "/">>, <<"m", "o", "d", "e", "l", "s", "/", "w", "e", "a", "p", "o", "n", "s", "2", "/">>,
       <<"m", "o", "d", "e", "l", "s", "/", "w", "e", "a", "p", "h", "i", "t", "s", "/">>, <<"m", "o", "d", "e", "l", "s", "/", "p", "o", "w", "e", "r", "u", "p", "s", "/">>, <<"m", "o", "d", "e", "l", "s", "/", "m", "a", "p", "o", "b", "j", "e", "c", "t", "s", "/">>,
       <<"m", "o", "d", "e", "l", "s", "/", "f", "l", "a", "g", "s", "/">>, <<"m", "o", "d", "e", "l", "s", "/", "a", "m", "m", "o", "/">>, <<"m", "o", "d", "e", "l", "s", "/", "g", "i", "b", "s", "/">>, <<"m", "o", "d", "e", "l", "s", "/", "m", "i", "s", "c", "/">>,
       <<"s", "o", "u", "n", "d", "/">>, <<"s", "c", "r", "i", "p", "t", "s", "/">>, <<"v", "m", "/">>, <<"t", "e", "x", "t", "u", "r", "e", "s", "/", "s", "f", "x", "/">>,
       <<"t", "e", "x", "t", "u", "r", "e", "s", "/", "e", "f", "f", "e", "c", "t", "s", "/">>, <<"t", "e", "x", "t", "u", "r", "e", "s", "/", "s", "f", "x", "2", "/">>, <<"t", "e", "x", "t", "u", "r", "e", "s", "/", "e", "f", "f", "e", "c", "t", "s", "2", "/">>,
       <<"t", "e", "x", "t", "u", "r", "e", "s", "/", "c", "t", "f", "2", "/">>, <<"t", "e", "a", "m", "_", "i", "c", "o", "n", "/">>, <<"m", "o", "d", "e", "l", "s", "/", "p", "l", "a", "y", "e", "r", "s", "/">> >>

baselineExcludePrefixes ==
    << <<"t", "e", "x", "t", "u", "r", "e", "s", "/">>, <<"m", "a", "p", "s", "/">>, <<"e", "n", "v", "/">>, <<"l", "e", "v", "e", "l", "s", "h", "o", "t", "s", "/">>, <<"d", "e", "m", "o", "s", "/">>,
       <<"v", "i", "d", "e", "o", "/">>, <<"m", "u", "s", "i", "c", "/">>, <<"m", "o", "d", "e", "l", "s", "/", "p", "l", "a", "y", "e", "r", "s", "/">> >>

\* The classification that looks at the exclude list first.
isBaselineFile_ExcludeFirst(lowerPath) ==
    IF \E i \in DOMAIN baselineExcludePrefixes :
           HasPrefix(lowerPath, baselineExcludePrefixes[i]) THEN FALSE
    ELSE IF \E i \in DOMAIN baselinePrefixes : HasPrefix(lowerPath, baselinePrefixes[i]) THEN TRUE
    ELSE LastSlash(lowerPath) = 0 /\ HasSuffix(lowerPath, <<".", "c", "f", "g">>)

isBaselineFile(lowerPath) ==
    IF \E i \in DOMAIN baselinePrefixes : HasPrefix(lowerPath, baselinePrefixes[i]) THEN TRUE
    ELSE IF \E i \in DOMAIN baselineExcludePrefixes :
                HasPrefix(lowerPath, baselineExcludePrefixes[i]) THEN FALSE
    ELSE LastSlash(lowerPath) = 0 /\ HasSuffix(lowerPath, <<".", "c", "f", "g">>)

\* filepath.Dir of a path that has a directory part.
Dir(path) == SubSeq(path, 1, LastSlash(path) - 1)

\* The archives WalkDir finds under a game directory, as collectPk3FilesFromDir
\* orders them: the root-level pak<digit> names, sorted, then the others, sorted.
IsPakFile(dir, path) ==
    LET IsPak(lowerName) ==
            HasPrefix(lowerName, <<"p", "a", "k">>) /\ Len(lowerName) = 8 /\ IsDigit(lowerName[4])
    IN Dir(path) = dir /\ IsPak(ToLower(Base(path)))

collectPk3FilesFromDir(dir) ==
    LET Ordered(found, pakFiles) ==
            SortStrings(SomeOrder(pakFiles)) \o SortStrings(SomeOrder(found \ pakFiles))
        Walk(found) == Ordered(found, {p \in found : IsPakFile(dir, p)})
    IN Walk({p \in DOMAIN zips : HasPrefix(p, dir \o <<"/">>)
                                  /\ HasSuffix(ToLower(Base(p)), <<".", "p", "k", "3">>)})

GameDirs == << <<"b", "a", "s", "e", "q", "3">>, <<"m", "i", "s", "s", "i", "o", "n", "p", "a", "c", "k">> >>

CollectGamePk3s ==
    LET games == {GameDirs[i] : i \in {i \in DOMAIN GameDirs :
                                           collectPk3FilesFromDir(GameDirs[i]) /= <<>>}}
    IN [g \in games |-> collectPk3FilesFromDir(g)]

\* The baseline bytes of the official archives: lowercased path -> data, a later
\* entry replacing an earlier one.
RECURSIVE BaselineOfEntries(_, _)
BaselineOfEntries(files, baselineFiles) ==
    IF files = <<>> THEN baselineFiles
    ELSE LET f == Head(files)
             lower == ToLower(f.Name)
         IN BaselineOfEntries(Tail(files),
                IF ~IsDir(f.Name) /\ isBaselineFile(lower)
                THEN MapPut(baselineFiles, lower, f.Data) ELSE baselineFiles)

RECURSIVE BaselineOfPaks(_, _)
BaselineOfPaks(officialPaks, baselineFiles) ==
    IF officialPaks = <<>> THEN baselineFiles
    ELSE BaselineOfPaks(Tail(officialPaks),
                        BaselineOfEntries(zips[Head(officialPaks)], baselineFiles))

\* The lowercased names of the files of the Trinity archive.
TrinityNames(trinityPak) ==
    IF trinityPak = <<>> \/ ~CanOpen(trinityPak) THEN {}
    ELSE {ToLower(zips[trinityPak][i].Name) :
              i \in {i \in DOMAIN zips[trinityPak] : ~IsDir(zips[trinityPak][i].Name)}}

\* The lines of a script file; contents that are no text have no lines.
ScriptLines(data) == IF data.type = "text" THEN data.lines ELSE <<>>

RECURSIVE RecordDefs(_, _, _)
RecordDefs(defs, lower, sh) ==
    IF defs = <<>> THEN sh
    ELSE LET key == ToLower(Head(defs).Name)
         IN RecordDefs(Tail(defs), lower,
                       [shaders |-> MapPut(sh.shaders, key, Head(defs).Textures),
                        shaderFiles |-> MapPut(sh.shaderFiles, key, lower)])

RECURSIVE ParseShaderEntries(_, _)
ParseShaderEntries(files, sh) ==
    IF files = <<>> THEN sh
    ELSE LET lower == ToLower(Head(files).Name)
         IN ParseShaderEntries(Tail(files),
                IF HasPrefix(lower, <<"s", "c", "r", "i", "p", "t", "s", "/">>) /\ HasSuffix(lower, <<".", "s", "h", "a", "d", "e", "r">>)
                THEN RecordDefs(ParseShaderScript(ScriptLines(Head(files).Data)), lower, sh)
                ELSE sh)

parseShadersPk3(pk3Path, sh) ==
    IF CanOpen(pk3Path) THEN ParseShaderEntries(zips[pk3Path], sh) ELSE sh

RECURSIVE ParseShadersAll(_, _)
ParseShadersAll(pk3s, sh) ==
    IF pk3s = <<>> THEN sh ELSE ParseShadersAll(Tail(pk3s), parseShadersPk3(Head(pk3s), sh))

\* The last Trinity override archive of the load order, <<>> if there is none.
LastTrinityPak(pk3s) ==
    LET hits == {i \in DOMAIN pk3s : IsTrinityPak(Base(pk3s[i]))}
    IN IF hits = {} THEN <<>> ELSE pk3s[CHOOSE i \in hits : \A j \in hits : j <= i]

IsOfficialPath(pk3Path) == IsOfficialPak(Base(pk3Path))

\* buildGameBaseline: the game's manifest and the baseline archive it writes.
buildGameBaseline(game, pk3s) ==
    LET Result(built, baselineFiles, sh) ==
            IF built.err THEN [err |-> TRUE]
            ELSE [err |-> FALSE,
                  gm |-> [FileIndex |-> built.index,
                          BaselineFiles |-> DOMAIN baselineFiles
                                            \cup TrinityNames(LastTrinityPak(pk3s)),
                          Shaders |-> sh.shaders,
                          ShaderFiles |-> sh.shaderFiles],
                  outputPath |-> game \o <<".", "p", "k", "3">>,
                  archive |-> WritePk3ToWriter(baselineFiles, SomeOrder(DOMAIN baselineFiles))]
    IN Result(BuildFileIndex(pk3s),
              BaselineOfPaks(SelectSeq(pk3s, IsOfficialPath), <<>>),
              ParseShadersAll(pk3s, [shaders |-> <<>>, shaderFiles |-> <<>>]))

\* Mutant of Merge: on a key of both maps m1's entry is kept.
Merge_BaseWins(m1, m2) ==
    [k \in DOMAIN m1 \cup DOMAIN m2 |-> IF k \in DOMAIN m1 THEN m1[k] ELSE m2[k]]

\* m2's entries over m1's.
Merge(m1, m2) ==
    [k \in DOMAIN m1 \cup DOMAIN m2 |-> IF k \in DOMAIN m2 THEN m2[k] ELSE m1[k]]

\* The missionpack manifest with the baseq3 manifest merged underneath.
MergeGame(bq3, mp) ==
    [FileIndex |-> Merge(bq3.FileIndex, mp.FileIndex),
     Shaders |-> Merge(bq3.Shaders, mp.Shaders),
     ShaderFiles |-> Merge(bq3.ShaderFiles, mp.ShaderFiles),
     BaselineFiles |-> bq3.BaselineFiles \cup mp.BaselineFiles]

\* BuildBaseline's loop over the game directories: what buildGameBaseline
\* yields for each game that has archives.
BuildGames(gamePk3s) == [g \in DOMAIN gamePk3s |-> buildGameBaseline(g, gamePk3s[g])]

\* The baseline archives buildGameBaseline wrote, by output path.
BaselineArchives(built) ==
    [p \in {built[g].outputPath : g \in DOMAIN built} |-> built[SubSeq(p, 1, Len(p) - 4)].archive]

\* The manifest BuildBaseline holds when it saves it, from the games built.
BuildManifest(built) ==
    LET Merged(games) ==
            [g \in DOMAIN games |->
                IF g = GameDirs[2] /\ GameDirs[1] \in DOMAIN games
                THEN MergeGame(games[GameDirs[1]], games[g]) ELSE games[g]]
    IN Merged([g \in DOMAIN built |-> built[g].gm])

\* Mutant of MapsOf: the maps an earlier game built are listed again.
MapsOf_Again(gm, builtMaps) ==
    {SubSeq(p, 6, Len(p) - 4) :
         p \in {p \in DOMAIN gm.FileIndex :
                    HasPrefix(p, <<"m", "a", "p", "s", "/">>) /\ HasSuffix(p, <<".", "b", "s", "p">>)}}

\* The names of the maps of a game's index that no earlier game built.
MapsOf(gm, builtMaps) ==
    {SubSeq(p, 6, Len(p) - 4) :
         p \in {p \in DOMAIN gm.FileIndex :
                    HasPrefix(p, <<"m", "a", "p", "s", "/">>) /\ HasSuffix(p, <<".", "b", "s", "p">>)}} \ builtMaps

MapPk3Path(mapName) == <<"m", "a", "p", "s", "/">> \o mapName \o <<".", "p", "k", "3">>

\* A logged call of BuildMapPak, made by BuildBaseline or by a later caller.
Call(by, mapName, game, outputPath, res) ==
    [op |-> "BuildMapPak", by |-> by, mapName |-> mapName, game |-> game, outputPath |-> outputPath,
     ret |-> res.ret, resolved |-> res.resolved, needed |-> res.needed,
     wrote |-> res.wrote, archive |-> res.archive]

\* Mutant of BuildMaps: the first map that fails ends the loop.
RECURSIVE BuildMaps_StopOnError(_, _, _)
BuildMaps_StopOnError(maps, game, mf) ==
    IF maps = <<>> THEN <<>>
    ELSE LET Rest(c) == IF c.ret /= "ok" THEN <<c>>
                        ELSE <<c>> \o BuildMaps_StopOnError(Tail(maps), game, mf)
         IN Rest(Call("BuildBaseline", Head(maps), game, MapPk3Path(Head(maps)),
                      BuildMapPakResult(Head(maps), game, mf)))

\* BuildBaseline's loop over the maps of one game: every map is packaged, a
\* failure is logged and the loop goes on.
RECURSIVE BuildMaps(_, _, _)
BuildMaps(maps, game, mf) ==
    IF maps = <<>> THEN <<>>
    ELSE <<Call("BuildBaseline", Head(maps), game, MapPk3Path(Head(maps)),
                BuildMapPakResult(Head(maps), game, mf))>>
         \o BuildMaps(Tail(maps), game, mf)

RECURSIVE WriteAll(_, _)
WriteAll(files, cs) ==
    IF cs = <<>> THEN files
    ELSE WriteAll(IF Head(cs).wrote THEN MapPut(files, Head(cs).outputPath, Head(cs).archive)
                  ELSE files, Tail(cs))

-----------------------------------------------------------------------------
(* Specification of the baseline build and of per-map packaging *)

\* On-demand calls of BuildMapPak after the baseline build.
MaxCalls == 1

Raw(id) == [type |-> "raw", id |-> id]

BspData(shaders, models, sounds, music) ==
    [type |-> "bsp", Shaders |-> shaders, Models |-> models, Sounds |-> sounds, Music |-> music]

Md3Data(shaders) == [type |-> "md3", Shaders |-> shaders]

Text(lines) == [type |-> "text", lines |-> lines]

\* The official archive of baseq3.  Map m1 references shader textures/S1, whose
\* script declares textures/a.tga (on disk as a.jpg, if at all) and
\* textures/gone.tga (on disk as gone.png, if at all).
Pak0Files(w) ==
    << Entry(<<"m", "a", "p", "s", "/">>, Raw("dir")),
       Entry(<<"m", "a", "p", "s", "/", "m", "1", ".", "b", "s", "p">>,
             BspData(<< <<"t", "e", "x", "t", "u", "r", "e", "s", "/", "S", "1">>, <<"t", "e", "x", "t", "u", "r", "e", "s", "/", "s", "f", "x", "/", "w">>, <<"t", "e", "x", "t", "u", "r", "e", "s", "/", "d">>,
                        <<"t", "e", "x", "t", "u", "r", "e", "s", "/", "n", "o", "d", "e", "f">> >>,
                     << <<"m", "o", "d", "e", "l", "s", "/", "m", "a", "p", "o", "b", "j", "e", "c", "t", "s", "/", "x", ".", "m", "d", "3">>, <<"m", "o", "d", "e", "l", "s", "/", "n", "o", "m", "o", "d", "e", "l", ".", "m", "d", "3">> >>,
                     << <<"s", "o", "u", "n", "d", "/", "n", ".", "w", "a", "v">>, <<"s", "o", "u", "n", "d", "/", "n", "o", "n", "e", ".", "w", "a", "v">> >>,
                     << <<"m", "u", "s", "i", "c", "/", "t", ".", "w", "a", "v">> >>)),
       Entry(<<"s", "c", "r", "i", "p", "t", "s", "/", "s", ".", "s", "h", "a", "d", "e", "r">>,
             Text(<< <<"t", "e", "x", "t", "u", "r", "e", "s", "/", "s", "1">>, <<"{">>, <<" ", " ", "{", " ", "m", "a", "p", " ", "t", "e", "x", "t", "u", "r", "e", "s", "/", "a", ".", "t", "g", "a", " ", "}">>,
                     <<" ", " ", "{", " ", "m", "a", "p", " ", "t", "e", "x", "t", "u", "r", "e", "s", "/", "g", "o", "n", "e", ".", "t", "g", "a", " ", "}">>, <<"}">>,
                     <<"t", "e", "x", "t", "u", "r", "e", "s", "/", "b", "a", "r", "e", " ", "{", " ", "s", "u", "r", "f", "a", "c", "e", "p", "a", "r", "m", " ", "n", "o", "d", "r", "a", "w", " ", "}">> >>)),
       Entry(<<"t", "e", "x", "t", "u", "r", "e", "s", "/", "s", "f", "x", "/", "w", ".", "t", "g", "a">>, Raw("w")),
       Entry(<<"T", "e", "x", "t", "u", "r", "e", "s", "/", "D", ".", "T", "G", "A">>, Raw("d")),
       Entry(<<"m", "o", "d", "e", "l", "s", "/", "m", "a", "p", "o", "b", "j", "e", "c", "t", "s", "/", "x", ".", "m", "d", "3">>,
             Md3Data(<< <<"t", "e", "x", "t", "u", "r", "e", "s", "/", "s", "f", "x", "/", "w">>, <<"t", "e", "x", "t", "u", "r", "e", "s", "/", "s", "1">>, <<"t", "e", "x", "t", "u", "r", "e", "s", "/", "e">> >>)),
       Entry(<<"t", "e", "x", "t", "u", "r", "e", "s", "/", "e", ".", "t", "g", "a">>, Raw("e")),
       Entry(<<"s", "o", "u", "n", "d", "/", "n", ".", "w", "a", "v">>, Raw("n")),
       Entry(<<"m", "u", "s", "i", "c", "/", "t", ".", "w", "a", "v">>, Raw("t")),
       Entry(<<"s", "c", "r", "i", "p", "t", "s", "/", "m", "1", ".", "a", "r", "e", "n", "a">>, Raw("arena1")),
       Entry(<<"d", "e", "f", "a", "u", "l", "t", ".", "c", "f", "g">>, Raw("cfg")) >>
    \o (IF w.a THEN << Entry(<<"t", "e", "x", "t", "u", "r", "e", "s", "/", "a", ".", "j", "p", "g">>, Raw("a")) >> ELSE <<>>)
    \o (IF w.gone THEN << Entry(<<"t", "e", "x", "t", "u", "r", "e", "s", "/", "g", "o", "n", "e", ".", "p", "n", "g">>, Raw("gone")) >> ELSE <<>>)
    \o (IF w.shot \in {"jpg", "both"}
        THEN << Entry(<<"l", "e", "v", "e", "l", "s", "h", "o", "t", "s", "/", "m", "1", ".", "j", "p", "g">>, Raw("shotj")) >> ELSE <<>>)
    \o (IF w.shot \in {"tga", "both"}
        THEN << Entry(<<"l", "e", "v", "e", "l", "s", "h", "o", "t", "s", "/", "m", "1", ".", "t", "g", "a">>, Raw("shott")) >> ELSE <<>>)

\* The Trinity override archive of baseq3.
Pak0tFiles == << Entry(<<"t", "e", "x", "t", "u", "r", "e", "s", "/", "d", ".", "t", "g", "a">>, Raw("dt")), Entry(<<"m", "u", "s", "i", "c", "/", "t", ".", "w", "a", "v">>, Raw("tt")),
                 Entry(<<"l", "e", "v", "e", "l", "s", "h", "o", "t", "s", "/", "m", "1", ".", "j", "p", "g">>, Raw("shotjt")) >>

\* A second override archive of baseq3, later in the load order.
\* Its map m4 needs nothing but itself, a baseline texture and a baseline sound.
Pak1tFiles == << Entry(<<"t", "e", "x", "t", "u", "r", "e", "s", "/", "E", ".", "t", "g", "a">>, Raw("et")), Entry(<<"g", "f", "x", "/">>, Raw("dir")),
                 Entry(<<"g", "f", "x", "/", "g", ".", "t", "g", "a">>, Raw("gt")),
                 Entry(<<"m", "a", "p", "s", "/", "m", "4", ".", "b", "s", "p">>,
                       BspData(<< <<"t", "e", "x", "t", "u", "r", "e", "s", "/", "s", "f", "x", "/", "w">> >>, <<>>, << <<"s", "o", "u", "n", "d", "/", "n", ".", "w", "a", "v">> >>, <<>>)) >>

\* A custom map archive of baseq3; it may bring its own scripts/s.shader.
ZmapFiles(w) ==
    << Entry(<<"m", "a", "p", "s", "/", "m", "2", ".", "b", "s", "p">>,
             BspData(<< <<"t", "e", "x", "t", "u", "r", "e", "s", "/", "s", "1">>, <<"t", "e", "x", "t", "u", "r", "e", "s", "/", "f">>, <<"t", "e", "x", "t", "u", "r", "e", "s", "/", "b", "a", "r", "e">> >>,
                     << <<"m", "o", "d", "e", "l", "s", "/", "q", ".", "m", "d", "3">> >>, <<>>, <<>>)),
       Entry(<<"s", "c", "r", "i", "p", "t", "s", "/", "z", ".", "s", "h", "a", "d", "e", "r">>,
             Text(<< <<"t", "e", "x", "t", "u", "r", "e", "s", "/", "f", " ", "/", "/", " ", "c", "u", "s", "t", "o", "m">>, <<"{", " ", "{", " ", "m", "a", "p", " ", "t", "e", "x", "t", "u", "r", "e", "s", "/", "f", "1", ".", "t", "g", "a", " ", "}", " ", "}">> >>)),
       Entry(<<"t", "e", "x", "t", "u", "r", "e", "s", "/", "f", "1", ".", "t", "g", "a">>, Raw("f1")),
       Entry(<<"t", "e", "x", "t", "u", "r", "e", "s", "/", "b", "a", "r", "e", ".", "t", "g", "a">>, Raw("bare")),
       Entry(<<"m", "o", "d", "e", "l", "s", "/", "q", ".", "m", "d", "3">>, Raw("notmd3")),
       Entry(<<"s", "c", "r", "i", "p", "t", "s", "/", "m", "2", ".", "a", "r", "e", "n", "a">>, Raw("arena2")),
       Entry(<<"l", "e", "v", "e", "l", "s", "h", "o", "t", "s", "/", "m", "2", ".", "t", "g", "a">>, Raw("shot2")) >>
    \o (IF w.custom = "override"
        THEN << Entry(<<"s", "c", "r", "i", "p", "t", "s", "/", "s", ".", "s", "h", "a", "d", "e", "r">>,
                      Text(<< <<"t", "e", "x", "t", "u", "r", "e", "s", "/", "o", "t", "h", "e", "r", " ", "{", " ", "{", " ", "m", "a", "p", " ", "t", "e", "x", "t", "u", "r", "e", "s", "/", "e", ".", "t", "g", "a", " ", "}", " ", "}">> >>)) >>
        ELSE <<>>)

\* The official archive of missionpack; it has a map named m1 of its own, a
\* map whose file is no BSP container, and a script that defines textures/s1
\* once more.
MpFiles ==
    << Entry(<<"m", "a", "p", "s", "/", "m", "3", ".", "b", "s", "p">>,
             BspData(<< <<"t", "e", "x", "t", "u", "r", "e", "s", "/", "s", "1">>, <<"t", "e", "x", "t", "u", "r", "e", "s", "/", "m", "p">> >>, <<>>,
                     << <<"s", "o", "u", "n", "d", "/", "n", ".", "w", "a", "v">> >>, <<>>)),
       Entry(<<"m", "a", "p", "s", "/", "m", "1", ".", "b", "s", "p">>, BspData(<< <<"t", "e", "x", "t", "u", "r", "e", "s", "/", "m", "p">> >>, <<>>, <<>>, <<>>)),
       Entry(<<"m", "a", "p", "s", "/", "b", "a", "d", ".", "b", "s", "p">>, Raw("notbsp")),
       Entry(<<"t", "e", "x", "t", "u", "r", "e", "s", "/", "m", "p", ".", "t", "g", "a">>, Raw("mp")),
       Entry(<<"s", "c", "r", "i", "p", "t", "s", "/", "m", "p", ".", "s", "h", "a", "d", "e", "r">>,
             Text(<< <<"t", "e", "x", "t", "u", "r", "e", "s", "/", "s", "1", " ", "{", " ", "{", " ", "m", "a", "p", " ", "t", "e", "x", "t", "u", "r", "e", "s", "/", "m", "p", ".", "t", "g", "a", " ", "}", " ", "}">>, <<"t", "e", "x", "t", "u", "r", "e", "s", "/", "m", "p", "o", "n", "l", "y", " ", "{", " ", "{", " ", "m", "a", "p", " ", "t", "e", "x", "t", "u", "r", "e", "s", "/", "e", ".", "t", "g", "a", " ", "}", " ", "}">> >>)) >>

Baseq3Pak0 == <<"b", "a", "s", "e", "q", "3", "/", "p", "a", "k", "0", ".", "p", "k", "3">>
Baseq3Pak0t == <<"b", "a", "s", "e", "q", "3", "/", "p", "a", "k", "0", "t", ".", "p", "k", "3">>
Baseq3Pak1t == <<"b", "a", "s", "e", "q", "3", "/", "p", "a", "k", "1", "t", ".", "p", "k", "3">>
Baseq3Zmap == <<"b", "a", "s", "e", "q", "3", "/", "z", "m", "a", "p", ".", "p", "k", "3">>
MissionpackPak0 == <<"m", "i", "s", "s", "i", "o", "n", "p", "a", "c", "k", "/", "p", "a", "k", "0", ".", "p", "k", "3">>

\* The game directory a choice of archives makes.
World(w) ==
    LET present == {Baseq3Pak0} \cup (IF w.trinity THEN {Baseq3Pak0t} ELSE {})
                   \cup (IF w.second THEN {Baseq3Pak1t} ELSE {})
                   \cup (IF w.custom /= "none" THEN {Baseq3Zmap} ELSE {})
                   \cup (IF w.mp THEN {MissionpackPak0} ELSE {})
    IN [p \in present |->
           IF p = Baseq3Pak0 THEN Pak0Files(w)
           ELSE IF p = Baseq3Pak0t THEN Pak0tFiles
           ELSE IF p = Baseq3Pak1t THEN Pak1tFiles
           ELSE IF p = Baseq3Zmap THEN ZmapFiles(w)
           ELSE MpFiles]

\* The game directories of the check: every choice of the archives and files
\* above with at most one override archive, and some with two.
Worlds ==
    {World(w) : w \in [a : BOOLEAN, gone : BOOLEAN, trinity : BOOLEAN, mp : BOOLEAN,
                       shot : {"none", "tga", "both"},
                       custom : {"none", "plain", "override"}, second : {FALSE}]
                      \cup [a : {TRUE}, gone : {FALSE}, trinity : {TRUE}, mp : BOOLEAN,
                            shot : {"both"}, custom : {"none", "plain"}, second : {TRUE}]}

\* The map names and games on-demand callers ask for.
MapNames == { <<"m", "1">>, <<"M", "1">>, <<"m", "3">>, <<"m", "9">> }
Games == { <<"b", "a", "s", "e", "q", "3">>, <<"m", "i", "s", "s", "i", "o", "n", "p", "a", "c", "k">>, <<"c", "t", "f">> }

\* The orders in which ranging over a set of map keys may yield them.
Orders(S) ==
    {o \in [1..Cardinality(S) -> S] : \A i, j \in 1..Cardinality(S) : i /= j => o[i] /= o[j]}

InitPak ==
    /\ zips \in Worlds
    /\ PakIdle
    /\ HarnessIdle
    /\ DemoIdle

\* What BuildBaseline returns after the pre-build loop.
BaselineBuilt == [called |-> TRUE, err |-> "nil"]

\* BuildBaseline: the baseline archives, the manifest, and every map's archive,
\* the maps of baseq3 first, then the maps of missionpack not built yet.
BuildBaseline ==
    /\ manifest = <<>>
    /\ calls = <<>>
    /\ output' = BaselineBuilt
    /\ LET Log(base, cs) == calls' = cs /\ written' = WriteAll(base, cs)
           Maps(base, mf, maps1, maps2) ==
               \E o1 \in Orders(maps1), o2 \in Orders(maps2) :
                   Log(base, BuildMaps(o1, GameDirs[1], mf) \o BuildMaps(o2, GameDirs[2], mf))
           Second(mf, maps1) ==
               IF GameDirs[2] \in DOMAIN mf THEN MapsOf(mf[GameDirs[2]], maps1) ELSE {}
           First(mf) == IF GameDirs[1] \in DOMAIN mf THEN MapsOf(mf[GameDirs[1]], {}) ELSE {}
           Rest(base, mf, maps1) == Maps(base, mf, maps1, Second(mf, maps1))
           Prebuild(base, mf) == manifest' = mf /\ Rest(base, mf, First(mf))
           Run(built) ==
               /\ built /= <<>>
               /\ \A g \in DOMAIN built : ~built[g].err
               /\ Prebuild(BaselineArchives(built), BuildManifest(built))
       IN Run(BuildGames(CollectGamePk3s))
    /\ UNCHANGED <<input, zips, configstrings, stored, pc, info>>

\* A later caller packages one map from the saved manifest.
BuildMapPak(mapName, game) ==
    /\ manifest /= <<>>
    /\ Cardinality({i \in DOMAIN calls : calls[i].by = "caller"}) < MaxCalls
    /\ LET Log(c) == calls' = Append(calls, c) /\ written' = WriteAll(written, <<c>>)
       IN Log(Call("caller", mapName, game, MapPk3Path(mapName),
                   BuildMapPakResult(mapName, game, manifest)))
    /\ UNCHANGED <<input, output, zips, manifest, configstrings, stored, pc, info>>

NextPak ==
    \/ BuildBaseline
    \/ \E mapName \in MapNames, game \in Games : BuildMapPak(mapName, game)

SpecPak == InitPak /\ [][NextPak]_vars

\* The logged calls of BuildMapPak that got as far as a game's manifest.
PakCalls == {i \in DOMAIN calls : calls[i].op = "BuildMapPak" /\ calls[i].game \in DOMAIN manifest}

\* C2: no path of the game's Baseline Set is an entry of an archive BuildMapPak
\* wrote, whichever resolution steps had put the path into the need-set.
C2_BaselineNeverWritten ==
    \A i \in PakCalls :
        calls[i].wrote =>
              \A k \in DOMAIN calls[i].archive :
                  calls[i].archive[k].Name \notin manifest[calls[i].game].BaselineFiles

\* A written archive whose map's resolution had found baseline paths through
\* a shader reference, a model, a sound and a shader script.
C2_Witness ==
    \E i \in PakCalls :
        /\ calls[i].wrote
        /\ { <<"t", "e", "x", "t", "u", "r", "e", "s", "/", "s", "f", "x", "/", "w", ".", "t", "g", "a">>, <<"m", "o", "d", "e", "l", "s", "/", "m", "a", "p", "o", "b", "j", "e", "c", "t", "s", "/", "x", ".", "m", "d", "3">>, <<"s", "o", "u", "n", "d", "/", "n", ".", "w", "a", "v">>,
             <<"s", "c", "r", "i", "p", "t", "s", "/", "s", ".", "s", "h", "a", "d", "e", "r">>, <<"s", "c", "r", "i", "p", "t", "s", "/", "m", "1", ".", "a", "r", "e", "n", "a">>, <<"m", "u", "s", "i", "c", "/", "t", ".", "w", "a", "v">>,
             <<"l", "e", "v", "e", "l", "s", "h", "o", "t", "s", "/", "m", "1", ".", "j", "p", "g">> } \subseteq
               calls[i].resolved \cap manifest[calls[i].game].BaselineFiles

\* The texture reference without its recognised extension, lowercased.
Stem(tex) ==
    LET lower == ToLower(tex)
        exts == {i \in DOMAIN textureExtensions : HasSuffix(lower, textureExtensions[i])}
    IN IF exts = {} THEN lower
       ELSE SubSeq(lower, 1, Len(lower)
                             - Len(textureExtensions[CHOOSE i \in exts : \A j \in exts : i <= j]))

\* The paths a texture reference can stand for: its stem with a known extension.
Candidates(tex) == {Stem(tex) \o textureExtensions[i] : i \in DOMAIN textureExtensions}

\* No archive on disk has a file for the texture reference.
AbsentEverywhere(tex) ==
    \A p \in DOMAIN zips : \A k \in DOMAIN zips[p] :
        ToLower(zips[p][k].Name) \notin Candidates(tex)

\* The shader names the geometry of a call's map references.
GeometryShaders(c) ==
    LET read == readFileFromIndex(<<"m", "a", "p", "s", "/">> \o c.mapName \o <<".", "b", "s", "p">>,
                                  manifest[c.game].FileIndex)
    IN IF read.err \/ ParseBSP(read.data).err THEN <<>> ELSE ParseBSP(read.data).Shaders

\* The lowercased shader names the geometry of a call's map references.
GeometryShaderNames(i) ==
    IF i \in PakCalls THEN {ToLower(s) : s \in Range(GeometryShaders(calls[i]))} ELSE {}

\* The case of C3 for a shader the map of call i references: its script
\* declares two textures, tex[present] is in the index and tex[absent] is in
\* no archive.
C3_Case(i, lower, present, absent) ==
    /\ lower \in DOMAIN manifest[calls[i].game].Shaders
    /\ Len(manifest[calls[i].game].Shaders[lower]) = 2
    /\ {present, absent} = {1, 2}
    /\ Candidates(manifest[calls[i].game].Shaders[lower][present])
           \cap DOMAIN manifest[calls[i].game].FileIndex /= {}
    /\ AbsentEverywhere(manifest[calls[i].game].Shaders[lower][absent])

\* C3: when a map's geometry references a shader whose script declares two
\* textures, one in the index and one in no archive, BuildMapPak raises no
\* failure and the need-set it resolves has the present texture and the
\* shader's script file, and has no path of the absent texture.
C3_AbsentTextureDropped ==
    \A i \in DOMAIN calls :
        \A lower \in GeometryShaderNames(i) :
            \A present, absent \in {1, 2} :
                C3_Case(i, lower, present, absent) =>
                    LET textures == manifest[calls[i].game].Shaders[lower]
                    IN /\ calls[i].ret = "ok"
                       /\ Candidates(textures[present]) \cap calls[i].resolved /= {}
                       /\ manifest[calls[i].game].ShaderFiles[lower] \in calls[i].resolved
                       /\ Candidates(textures[absent]) \cap calls[i].resolved = {}

\* Map m1 packaged with a.jpg on disk and no file for textures/gone.
C3_Witness ==
    \E i \in DOMAIN calls :
        /\ <<"t", "e", "x", "t", "u", "r", "e", "s", "/", "s", "1">> \in GeometryShaderNames(i)
        /\ C3_Case(i, <<"t", "e", "x", "t", "u", "r", "e", "s", "/", "s", "1">>, 1, 2)
        /\ calls[i].mapName = <<"m", "1">>
        /\ <<"t", "e", "x", "t", "u", "r", "e", "s", "/", "a", ".", "j", "p", "g">> \in calls[i].resolved
        /\ calls[i].wrote

\* The calls BuildMapPak makes for a map whose BSP the game's index lacks.
BspMissing(c) ==
    /\ c.op = "BuildMapPak"
    /\ c.game \in DOMAIN manifest
    /\ ToLower(<<"m", "a", "p", "s", "/">> \o c.mapName \o <<".", "b", "s", "p">>) \notin DOMAIN manifest[c.game].FileIndex

\* C10: a call of BuildMapPak for a map whose maps/<mapName>.bsp the game's
\* index lacks returns an error, has resolved nothing, and leaves the output
\* archives as they were.
C10_MissingBspFails ==
    [][\A i \in (Len(calls) + 1)..Len(calls') :
           BspMissing(calls'[i]) /\ manifest /= <<>> =>
               /\ calls'[i].ret /= "ok"
               /\ calls'[i].resolved = {}
               /\ ~calls'[i].wrote
               /\ written' = written]_vars

\* A call for map m9, which no archive has, answered with the error.
C10_Witness ==
    \E i \in DOMAIN calls :
        /\ BspMissing(calls[i])
        /\ calls[i].mapName = <<"m", "9">>
        /\ calls[i].ret = "BSP not found"
        /\ calls[i].outputPath \notin DOMAIN written

\* The map names with a maps/<name>.bsp entry in some game's index.
DiscoveredMaps ==
    {SubSeq(p, 6, Len(p) - 4) :
         p \in {p \in UNION {DOMAIN manifest[g].FileIndex : g \in DOMAIN manifest} :
                    HasPrefix(p, <<"m", "a", "p", "s", "/">>) /\ HasSuffix(p, <<".", "b", "s", "p">>)}}

\* The per-map resolutions BuildBaseline ran for a map name.
BaselineCallsFor(m) ==
    {i \in DOMAIN calls : calls[i].by = "BuildBaseline" /\ calls[i].mapName = m}

\* The per-map resolutions of BuildBaseline that failed.
FailedMaps == {i \in DOMAIN calls : calls[i].by = "BuildBaseline" /\ calls[i].ret /= "ok"}

\* C11: when per-map resolution fails for a map, BuildBaseline has the failure
\* in its log, has still run resolution for every discovered map, and returns
\* no error.
C11_MapFailureNotFatal ==
    FailedMaps /= {} =>
        /\ output = BaselineBuilt
        /\ \A m \in DiscoveredMaps : BaselineCallsFor(m) /= {}

\* A map whose file is no BSP failed to parse, and a map listed after it was
\* packaged and written.
C11_Witness ==
    \E i \in FailedMaps : \E j \in DOMAIN calls :
        /\ calls[i].ret = "parse BSP"
        /\ j > i
        /\ calls[j].by = "BuildBaseline"
        /\ calls[j].ret = "ok"
        /\ calls[j].wrote
        /\ output = BaselineBuilt

\* C12: once BuildBaseline has run, it has run per-map resolution exactly once
\* for every map name with a maps/<name>.bsp entry in some game's index.
C12_EachMapOnce ==
    manifest /= <<>> => \A m \in DiscoveredMaps : Cardinality(BaselineCallsFor(m)) = 1

\* Map m1 is in the archives of both games, so in the index of baseq3 and in
\* the merged index of missionpack, and was resolved once.
C12_Witness ==
    /\ DOMAIN manifest = Range(GameDirs)
    /\ \A g \in DOMAIN manifest : <<"m", "a", "p", "s", "/", "m", "1", ".", "b", "s", "p">> \in DOMAIN manifest[g].FileIndex
    /\ \E p, r \in DOMAIN zips :
           /\ p /= r
           /\ \E k \in DOMAIN zips[p] : zips[p][k].Name = <<"m", "a", "p", "s", "/", "m", "1", ".", "b", "s", "p">>
           /\ \E k \in DOMAIN zips[r] : zips[r][k].Name = <<"m", "a", "p", "s", "/", "m", "1", ".", "b", "s", "p">>
    /\ Cardinality(BaselineCallsFor(<<"m", "1">>)) = 1

\* The manifest buildGameBaseline makes of a game's own archives, before
\* BuildBaseline merges anything.
OwnManifest(g) == buildGameBaseline(g, collectPk3FilesFromDir(g)).gm

\* merged has the keys of base and own together, with own's value on the keys
\* of own and base's value on the others.
IsUnionOver(merged, base, own) ==
    /\ DOMAIN merged = DOMAIN base \cup DOMAIN own
    /\ \A k \in DOMAIN own : merged[k] = own[k]
    /\ \A k \in DOMAIN base \ DOMAIN own : merged[k] = base[k]

\* C13: with baseq3 and missionpack both present, each of the four maps of the
\* missionpack manifest is the union of baseq3's and missionpack's own
\* entries, missionpack's value on every shared key, and the baseq3 manifest
\* is as buildGameBaseline made it.
C13_MergedManifest ==
    DOMAIN manifest = Range(GameDirs) =>
        LET bq3 == OwnManifest(GameDirs[1])
            own == OwnManifest(GameDirs[2])
            mp == manifest[GameDirs[2]]
        IN /\ IsUnionOver(mp.FileIndex, bq3.FileIndex, own.FileIndex)
           /\ IsUnionOver(mp.Shaders, bq3.Shaders, own.Shaders)
           /\ IsUnionOver(mp.ShaderFiles, bq3.ShaderFiles, own.ShaderFiles)
           /\ mp.BaselineFiles = bq3.BaselineFiles \cup own.BaselineFiles
           /\ manifest[GameDirs[1]] = bq3

\* Both games are present and disagree on maps/m1.bsp in the file index and on
\* textures/s1 in the shaders and in the shader-source files, and each has
\* baseline paths the other lacks.
C13_Witness ==
    /\ DOMAIN manifest = Range(GameDirs)
    /\ LET bq3 == OwnManifest(GameDirs[1])
           own == OwnManifest(GameDirs[2])
           mp == manifest[GameDirs[2]]
       IN /\ bq3.FileIndex[<<"m", "a", "p", "s", "/", "m", "1", ".", "b", "s", "p">>] /= own.FileIndex[<<"m", "a", "p", "s", "/", "m", "1", ".", "b", "s", "p">>]
          /\ mp.FileIndex[<<"m", "a", "p", "s", "/", "m", "1", ".", "b", "s", "p">>] = MissionpackPak0
          /\ bq3.Shaders[<<"t", "e", "x", "t", "u", "r", "e", "s", "/", "s", "1">>] /= own.Shaders[<<"t", "e", "x", "t", "u", "r", "e", "s", "/", "s", "1">>]
          /\ mp.Shaders[<<"t", "e", "x", "t", "u", "r", "e", "s", "/", "s", "1">>] = << <<"t", "e", "x", "t", "u", "r", "e", "s", "/", "m", "p", ".", "t", "g", "a">> >>
          /\ mp.ShaderFiles[<<"t", "e", "x", "t", "u", "r", "e", "s", "/", "s", "1">>] = <<"s", "c", "r", "i", "p", "t", "s", "/", "m", "p", ".", "s", "h", "a", "d", "e", "r">>
          /\ <<"t", "e", "x", "t", "u", "r", "e", "s", "/", "b", "a", "r", "e">> \in DOMAIN mp.Shaders \ DOMAIN own.Shaders
          /\ bq3.BaselineFiles \ own.BaselineFiles /= {}
          /\ own.BaselineFiles \ bq3.BaselineFiles /= {}

\* The override archives on disk in the directory of a game of the manifest.
OverrideArchives(g) ==
    {p \in DOMAIN zips : Dir(p) = g /\ IsTrinityPak(Base(p))}

\* The baseline archive BuildBaseline wrote for a game.
BaselineArchive(g) == written[g \o <<".", "p", "k", "3">>]

\* C14: every non-directory entry of every override archive of a game
\* directory is in the game's BaselineFiles, and no entry of the game's
\* baseline archive has the path and the bytes of an override archive's entry.
C14_OverrideContentsExcluded ==
    \A g \in DOMAIN manifest : \A p \in OverrideArchives(g) :
        \A k \in DOMAIN zips[p] :
            ~IsDir(zips[p][k].Name) =>
                /\ ToLower(zips[p][k].Name) \in manifest[g].BaselineFiles
                /\ \A e \in DOMAIN BaselineArchive(g) :
                       ~(/\ BaselineArchive(g)[e].Name = ToLower(zips[p][k].Name)
                         /\ BaselineArchive(g)[e].Data = zips[p][k].Data)

-----------------------------------------------------------------------------
(* Concurrent per-map resolution over one manifest *)

\* The resolutions that run side by side: one call of BuildMapPak each.
Resolutions ==
    { [mapName |-> <<"m", "1">>, game |-> GameDirs[1]],
      [mapName |-> <<"m", "2">>, game |-> GameDirs[1]],
      [mapName |-> <<"m", "3">>, game |-> GameDirs[2]] }

\* The game directories the manifest of the concurrent runs is built from.
SharedWorlds ==
    {World(w) : w \in [a : {TRUE}, gone : {FALSE}, trinity : BOOLEAN, mp : BOOLEAN,
                       shot : {"both"}, custom : {"plain"}, second : {FALSE}]}

\* A call's locals: its position, its loop index, its need-set, the need-set
\* before step 11, and what it returned.
Local(step, i, needed, resolved, ret) ==
    [step |-> step, i |-> i, needed |-> needed, resolved |-> resolved, ret |-> ret]

\* Mutant of Put: the calls share one need-set.
Put_Shared(locals, w, local) ==
    [x \in DOMAIN locals |->
        IF x = w THEN local ELSE [locals[x] EXCEPT !.needed = @ \cup local.needed]]

\* A step of call w writes its own locals, the need-set among them.
Put(locals, w, local) == [locals EXCEPT ![w] = local]

LowerBSP(w) == ToLower(<<"m", "a", "p", "s", "/">> \o w.mapName \o <<".", "b", "s", "p">>)

\* The references of the call's map, read from the shared index.
BspOf(w) == ParseBSP(readFileFromIndex(LowerBSP(w), manifest[w.game].FileIndex).data)

InitShared ==
    /\ zips \in SharedWorlds
    /\ manifest = BuildManifest(BuildGames(CollectGamePk3s))
    /\ pc = [w \in Resolutions |-> Local("start", 0, {}, {}, "")]
    /\ written = <<>>
    /\ calls = <<>>
    /\ HarnessIdle
    /\ configstrings = <<>> /\ stored = <<>> /\ info = <<>>

\* Steps 1 and 2: the game, the BSP's index entry, its bytes and its parse.
BeginStep(w) ==
    /\ pc[w].step = "start"
    /\ LET Parsed(bspAssets) ==
               IF bspAssets.err THEN Local("done", 0, {LowerBSP(w)}, {}, "parse BSP")
               ELSE Local("shaders", 1, {LowerBSP(w)}, {}, "")
           Read(read) ==
               IF read.err THEN Local("done", 0, {LowerBSP(w)}, {}, "read BSP")
               ELSE Parsed(ParseBSP(read.data))
           Found(gm) ==
               IF LowerBSP(w) \notin DOMAIN gm.FileIndex
               THEN Local("done", 0, {}, {}, "BSP not found")
               ELSE Read(readFileFromIndex(LowerBSP(w), gm.FileIndex))
       IN pc' = Put(pc, w, IF w.game \notin DOMAIN manifest
                           THEN Local("done", 0, {}, {}, "game not found")
                           ELSE Found(manifest[w.game]))
    /\ UNCHANGED <<input, output, zips, manifest, written, calls, configstrings, stored, info>>

\* Step 3, one surface shader of the loop.
ShaderStep(w) ==
    /\ pc[w].step = "shaders"
    /\ pc[w].i <= Len(BspOf(w).Shaders)
    /\ pc' = Put(pc, w, Local("shaders", pc[w].i + 1,
                     resolveShaderTextures(BspOf(w).Shaders[pc[w].i], manifest[w.game], pc[w].needed),
                     {}, ""))
    /\ UNCHANGED <<input, output, zips, manifest, written, calls, configstrings, stored, info>>

ShadersDone(w) ==
    /\ pc[w].step = "shaders"
    /\ pc[w].i > Len(BspOf(w).Shaders)
    /\ pc' = Put(pc, w, Local("models", 1, pc[w].needed, {}, ""))
    /\ UNCHANGED <<input, output, zips, manifest, written, calls, configstrings, stored, info>>

\* Step 4, one entity model of the loop.
ModelStep(w) ==
    /\ pc[w].step = "models"
    /\ pc[w].i <= Len(BspOf(w).Models)
    /\ pc' = Put(pc, w, Local("models", pc[w].i + 1,
                     resolveModel(BspOf(w).Models[pc[w].i], manifest[w.game], pc[w].needed),
                     {}, ""))
    /\ UNCHANGED <<input, output, zips, manifest, written, calls, configstrings, stored, info>>

ModelsDone(w) ==
    /\ pc[w].step = "models"
    /\ pc[w].i > Len(BspOf(w).Models)
    /\ pc' = Put(pc, w, Local("sounds", 0, pc[w].needed, {}, ""))
    /\ UNCHANGED <<input, output, zips, manifest, written, calls, configstrings, stored, info>>

\* Steps 5 and 6.
SoundsStep(w) ==
    /\ pc[w].step = "sounds"
    /\ pc' = Put(pc, w, Local("music", 0,
                     AddIndexed(pc[w].needed, BspOf(w).Sounds, manifest[w.game]), {}, ""))
    /\ UNCHANGED <<input, output, zips, manifest, written, calls, configstrings, stored, info>>

MusicStep(w) ==
    /\ pc[w].step = "music"
    /\ pc' = Put(pc, w, Local("levelshot", 0,
                     AddIndexed(pc[w].needed, BspOf(w).Music, manifest[w.game]), {}, ""))
    /\ UNCHANGED <<input, output, zips, manifest, written, calls, configstrings, stored, info>>

\* Steps 9 and 10.
LevelshotStep(w) ==
    /\ pc[w].step = "levelshot"
    /\ pc' = Put(pc, w, Local("arena", 0,
                     AddLevelshot(pc[w].needed, w.mapName, manifest[w.game]), {}, ""))
    /\ UNCHANGED <<input, output, zips, manifest, written, calls, configstrings, stored, info>>

ArenaStep(w) ==
    /\ pc[w].step = "arena"
    /\ pc' = Put(pc, w, Local("exclude", 0,
                     AddArena(pc[w].needed, w.mapName, manifest[w.game]), {}, ""))
    /\ UNCHANGED <<input, output, zips, manifest, written, calls, configstrings, stored, info>>

\* Step 11: the deletes go to the call's need-set, the manifest is only read.
ExcludeStep(w) ==
    /\ pc[w].step = "exclude"
    /\ pc' = Put(pc, w, Local("write", 0, ExcludeBaseline(pc[w].needed, manifest[w.game]),
                              pc[w].needed, ""))
    /\ UNCHANGED <<input, output, zips, manifest, written, calls, configstrings, stored, info>>

\* The rest of BuildMapPak: nothing to write, or extract and WritePk3.
WriteStep(w) ==
    /\ pc[w].step = "write"
    /\ LET Done(ret) == pc' = Put(pc, w, Local("done", 0, pc[w].needed, pc[w].resolved, ret))
           Write(extracted) ==
               IF extracted.err THEN Done("extract files") /\ UNCHANGED written
               ELSE /\ Done("ok")
                    /\ written' = MapPut(written, MapPk3Path(w.mapName),
                           WritePk3ToWriter(extracted.files, SomeOrder(DOMAIN extracted.files)))
       IN IF pc[w].needed = {} THEN Done("ok") /\ UNCHANGED written
          ELSE Write(ExtractFilesFromPk3s(pc[w].needed, manifest[w.game].FileIndex))
    /\ UNCHANGED <<input, output, zips, manifest, calls, configstrings, stored, info>>

NextShared ==
    \E w \in Resolutions :
        \/ BeginStep(w)
        \/ ShaderStep(w)
        \/ ShadersDone(w)
        \/ ModelStep(w)
        \/ ModelsDone(w)
        \/ SoundsStep(w)
        \/ MusicStep(w)
        \/ LevelshotStep(w)
        \/ ArenaStep(w)
        \/ ExcludeStep(w)
        \/ WriteStep(w)

SpecShared == InitShared /\ [][NextShared]_vars

\* What the resolution returns when it runs alone over the manifest.
Alone(w) == BuildMapPakResult(w.mapName, w.game, manifest)

\* C15: no step of a resolution changes the manifest, and a resolution that
\* has run to its end among the steps of the others, in any interleaving, has
\* the need-set, the result and the archive it has when it runs alone.
C15_InterleavingsAgree ==
    /\ [][manifest' = manifest]_vars
    /\ [](\A w \in Resolutions :
              pc[w].step = "done" =>
                  /\ pc[w].ret = Alone(w).ret
                  /\ pc[w].needed = Alone(w).needed
                  /\ pc[w].resolved = Alone(w).resolved
                  /\ Alone(w).wrote => written[MapPk3Path(w.mapName)] = Alone(w).archive)

\* One resolution has written its archive while the two others are halfway
\* through their loops over the shaders and the models of their maps.
C15_Witness ==
    \E a, b, c \in Resolutions :
        /\ pc[a].step = "done" /\ pc[a].ret = "ok" /\ pc[a].needed /= {}
        /\ MapPk3Path(a.mapName) \in DOMAIN written
        /\ pc[b].step = "shaders" /\ pc[b].i = 2
        /\ pc[c].step = "models" /\ pc[c].i = 2
        /\ pc[b].needed /= pc[c].needed

\* The calls of BuildMapPak that came to step 11 and were left with an empty
\* need-set.
NothingLeft(c) == c.op = "BuildMapPak" /\ c.resolved /= {} /\ c.needed = {}

\* C17: a call of BuildMapPak whose need-set is empty once the Baseline Set is
\* taken out returns no error and writes no archive.
C17_EmptyNeedSetNoArchive ==
    \A i \in DOMAIN calls :
        NothingLeft(calls[i]) =>
            /\ calls[i].ret = "ok"
            /\ ~calls[i].wrote
            /\ calls[i].outputPath \notin DOMAIN written

\* Map m4 of the override archive: its BSP, its texture and its sound are all
\* in the Baseline Set.
C17_Witness ==
    \E i \in DOMAIN calls :
        /\ NothingLeft(calls[i])
        /\ calls[i].mapName = <<"m", "4">>
        /\ {<<"m", "a", "p", "s", "/", "m", "4", ".", "b", "s", "p">>, <<"t", "e", "x", "t", "u", "r", "e", "s", "/", "s", "f", "x", "/", "w", ".", "t", "g", "a">>, <<"s", "o", "u", "n", "d", "/", "n", ".", "w", "a", "v">>} \subseteq calls[i].resolved
        /\ calls[i].resolved \subseteq manifest[calls[i].game].BaselineFiles
        /\ calls[i].ret = "ok"

-----------------------------------------------------------------------------
(* Replay Decoder *)

csServerInfo == 0
csSystemInfo == 1
csModels == 32
csSounds == 288
csPlayers == 544
csMax == 1024

maxGentities == 1024
gentitynumBits == 10
maxClients == 64
floatIntBits == 13
maxStats == 16
maxPersistant == 16
maxWeapons == 16
maxPowerups == 16
numEntityFields == 51
numPlayerFields == 48

\* 0 = float, positive = unsigned integer bits.
entityFieldBits ==
    << 32, 0, 0, 0, 0, 0, 0, 0, 0,
       10, 0, 8, 8, 8, 8,
       10, 8, 19, 10, 8, 8, 0,
       32, 8, 0, 0, 0, 24, 16,
       8, 10, 8, 8,
       0, 0, 0, 8, 0,
       32, 32, 32,
       0, 0, 0, 0,
       32, 0, 0, 0, 32, 16 >>

\* 0 = float, negative = signed integer bits.
playerFieldBits ==
    << 32, 0, 0, 8, 0, 0, 0, 0,
       -16, 0, 0, 8, -16, 16,
       8, 4, 8, 8, 8, 16,
       10, 4, 16, 10, 16, 16, 16,
       8, -8, 8, 8, 8, 8, 8,
       8, 16, 16, 12, 8, 8,
       8, 5, 0, 0, 0, 0, 10, 16 >>

\* The bit reader of a frame: the frame's bytes and the number of bits read.
NewMsgReader(frameData) == [data |-> frameData, bit |-> 0]

\* Bit k of the reader's bytes, the low bit of a byte first; 0 past the end.
BitAt(msg, k) ==
    IF (k \div 8) + 1 > Len(msg.data) THEN 0
    ELSE (msg.data[(k \div 8) + 1] \div (2 ^ (k % 8))) % 2

RECURSIVE BitsValue(_, _, _)
BitsValue(msg, k, n) ==
    IF n = 0 THEN 0 ELSE BitAt(msg, k) + 2 * BitsValue(msg, k + 1, n - 1)

\* The reader after n more bits.
SkipBits(msg, n) == [msg EXCEPT !.bit = @ + n]

\* ReadBits: the unsigned value of the next n bits and the reader after them.
ReadBits(msg, n) == [v |-> BitsValue(msg, msg.bit, n), msg |-> SkipBits(msg, n)]

ReadByte(msg) == ReadBits(msg, 8)

\* ReadShort: the next 16 bits as a signed number.
ReadShort(msg) ==
    LET r == ReadBits(msg, 16)
    IN [v |-> IF r.v >= 32768 THEN r.v - 65536 ELSE r.v, msg |-> r.msg]

\* ReadLong, whose value no caller uses: the reader after 32 bits.
ReadLong(msg) == SkipBits(msg, 32)

\* ReadData: the next n bytes and the reader after them.
ReadData(msg, n) ==
    [v |-> [i \in 1..n |-> BitsValue(msg, msg.bit + 8 * (i - 1), 8)],
     msg |-> SkipBits(msg, 8 * n)]

\* Remaining: the whole bytes not read yet.
Remaining(msg) ==
    IF 8 * Len(msg.data) > msg.bit THEN (8 * Len(msg.data) - msg.bit) \div 8 ELSE 0

\* One field of an entity delta skipped the way a field of a player delta is:
\* without the bit that marks a zero.
skipEntityField_NoZeroGate(msg, i) ==
    LET changed == ReadBits(msg, 1)
        full == ReadBits(changed.msg, 1)
    IN IF changed.v = 0 THEN changed.msg
       ELSE IF entityFieldBits[i] /= 0 THEN SkipBits(changed.msg, entityFieldBits[i])
       ELSE IF full.v = 0 THEN SkipBits(full.msg, floatIntBits)
       ELSE SkipBits(full.msg, 32)

\* One field of an entity delta, from its "changed" bit on.
skipEntityField(msg, i) ==
    LET changed == ReadBits(msg, 1)
        nonzero == ReadBits(changed.msg, 1)
        full == ReadBits(nonzero.msg, 1)
    IN IF changed.v = 0 THEN changed.msg
       ELSE IF nonzero.v = 0 THEN nonzero.msg
       ELSE IF entityFieldBits[i] /= 0 THEN SkipBits(nonzero.msg, entityFieldBits[i])
       ELSE IF full.v = 0 THEN SkipBits(full.msg, floatIntBits)
       ELSE SkipBits(full.msg, 32)

\* The loop over the fields i..lc, from the reader's position on.
skipEntityFields(msg, i, lc) ==
    LET loop[at \in Nat \X Nat] ==
            IF at[2] > lc THEN at[1]
            ELSE loop[<<skipEntityField([msg EXCEPT !.bit = at[1]], at[2]).bit, at[2] + 1>>]
    IN [msg EXCEPT !.bit = loop[<<msg.bit, i>>]]

skipEntityDelta(msg) ==
    LET remove == ReadBits(msg, 1)
        delta == ReadBits(remove.msg, 1)
        lc == ReadByte(delta.msg)
    IN IF remove.v = 1 THEN remove.msg
       ELSE IF delta.v = 0 THEN delta.msg
       ELSE IF lc.v > numEntityFields THEN lc.msg
       ELSE skipEntityFields(lc.msg, 1, lc.v)

Abs(n) == IF n < 0 THEN -n ELSE n

\* One field of a player delta skipped the way a field of an entity delta is:
\* with a bit that marks a zero.
skipPlayerField_ZeroGate(msg, i) ==
    LET changed == ReadBits(msg, 1)
        nonzero == ReadBits(changed.msg, 1)
        full == ReadBits(nonzero.msg, 1)
    IN IF changed.v = 0 THEN changed.msg
       ELSE IF nonzero.v = 0 THEN nonzero.msg
       ELSE IF playerFieldBits[i] /= 0 THEN SkipBits(nonzero.msg, Abs(playerFieldBits[i]))
       ELSE IF full.v = 0 THEN SkipBits(full.msg, floatIntBits)
       ELSE SkipBits(full.msg, 32)

\* One field of a player delta, from its "changed" bit on.
skipPlayerField(msg, i) ==
    LET changed == ReadBits(msg, 1)
        full == ReadBits(changed.msg, 1)
    IN IF changed.v = 0 THEN changed.msg
       ELSE IF playerFieldBits[i] /= 0 THEN SkipBits(changed.msg, Abs(playerFieldBits[i]))
       ELSE IF full.v = 0 THEN SkipBits(full.msg, floatIntBits)
       ELSE SkipBits(full.msg, 32)

\* The loop over the fields i..lc, from the reader's position on.
skipPlayerFields(msg, i, lc) ==
    LET loop[at \in Nat \X Nat] ==
            IF at[2] > lc THEN at[1]
            ELSE loop[<<skipPlayerField([msg EXCEPT !.bit = at[1]], at[2]).bit, at[2] + 1>>]
    IN [msg EXCEPT !.bit = loop[<<msg.bit, i>>]]

\* The number of bits set among the low n bits of a mask.
RECURSIVE PopCount(_, _)
PopCount(bits, n) == IF n = 0 THEN 0 ELSE (bits % 2) + PopCount(bits \div 2, n - 1)

\* One of the four arrays of a player delta: a presence bit, a mask of n
\* bits, and a value of the given width for each bit set in the mask.
skipPlayerArray(msg, n, width) ==
    LET present == ReadBits(msg, 1)
        bits == ReadBits(present.msg, n)
    IN IF present.v = 0 THEN present.msg
       ELSE SkipBits(bits.msg, width * PopCount(bits.v, n))

skipPlayerDelta(msg) ==
    LET lc == ReadByte(msg)
        fields == skipPlayerFields(lc.msg, 1, lc.v)
        arrays == ReadBits(fields, 1)
        stats == skipPlayerArray(arrays.msg, maxStats, 16)
        persistant == skipPlayerArray(stats, maxPersistant, 16)
        ammo == skipPlayerArray(persistant, maxWeapons, 16)
    IN IF lc.v > numPlayerFields THEN lc.msg
       ELSE IF arrays.v = 0 THEN arrays.msg
       ELSE skipPlayerArray(ammo, maxPowerups, 32)

\* The bytes below 32 and from 127 on, as characters of a text.
LowBytes ==
    <<
      "x00", "x01", "x02", "x03", "x04", "x05", "x06", "x07", "x08", "x09", "x0a", "x0b",
      "x0c", "x0d", "x0e", "x0f", "x10", "x11", "x12", "x13", "x14", "x15", "x16", "x17",
      "x18", "x19", "x1a", "x1b", "x1c", "x1d", "x1e", "x1f" >>

HighBytes ==
    <<
      "x7f", "x80", "x81", "x82", "x83", "x84", "x85", "x86", "x87", "x88", "x89", "x8a",
      "x8b", "x8c", "x8d", "x8e", "x8f", "x90", "x91", "x92", "x93", "x94", "x95", "x96",
      "x97", "x98", "x99", "x9a", "x9b", "x9c", "x9d", "x9e", "x9f", "xa0", "xa1", "xa2",
      "xa3", "xa4", "xa5", "xa6", "xa7", "xa8", "xa9", "xaa", "xab", "xac", "xad", "xae",
      "xaf", "xb0", "xb1", "xb2", "xb3", "xb4", "xb5", "xb6", "xb7", "xb8", "xb9", "xba",
      "xbb", "xbc", "xbd", "xbe", "xbf", "xc0", "xc1", "xc2", "xc3", "xc4", "xc5", "xc6",
      "xc7", "xc8", "xc9", "xca", "xcb", "xcc", "xcd", "xce", "xcf", "xd0", "xd1", "xd2",
      "xd3", "xd4", "xd5", "xd6", "xd7", "xd8", "xd9", "xda", "xdb", "xdc", "xdd", "xde",
      "xdf", "xe0", "xe1", "xe2", "xe3", "xe4", "xe5", "xe6", "xe7", "xe8", "xe9", "xea",
      "xeb", "xec", "xed", "xee", "xef", "xf0", "xf1", "xf2", "xf3", "xf4", "xf5", "xf6",
      "xf7", "xf8", "xf9", "xfa", "xfb", "xfc", "xfd", "xfe", "xff" >>

\* string([]byte{b}): the character of a byte.
ByteChar(b) ==
    IF b < 32 THEN LowBytes[b + 1] ELSE IF b > 126 THEN HighBytes[b - 126] ELSE Chr(b)

\* string(data): the text of a byte slice.
BytesToString(bytes) == [i \in 1..Len(bytes) |-> ByteChar(bytes[i])]

\* binary.LittleEndian.Uint16(data[offset:]), the offset counted from 0.
Uint16(data, offset) == data[offset + 1] + 256 * data[offset + 2]

\* binary.LittleEndian.Uint32(data[offset:]), the offset counted from 0.
Uint32(data, offset) ==
    data[offset + 1] + 256 * data[offset + 2] + 65536 * data[offset + 3]
    + 16777216 * data[offset + 4]

\* Mutant of StoreCS: an index already in the table keeps its value.
StoreCS_KeepFirst(cs, index, value) ==
    IF index \in DOMAIN cs THEN cs ELSE MapPut(cs, index, value)

\* configstrings[index] = value.
StoreCS(cs, index, value) == MapPut(cs, index, value)

RECURSIVE StoreAll(_, _)
StoreAll(cs, updates) ==
    IF updates = <<>> THEN cs
    ELSE StoreAll(StoreCS(cs, Head(updates).index, Head(updates).value), Tail(updates))

\* The entity deltas of a frame, up to the end marker; truncated is set when
\* the frame ends before the marker.
RECURSIVE skipEntities(_)
skipEntities(msg) ==
    LET entityNum == ReadBits(msg, gentitynumBits)
    IN IF entityNum.v = maxGentities - 1 THEN [truncated |-> FALSE, msg |-> entityNum.msg]
       ELSE IF Remaining(entityNum.msg) < 2 THEN [truncated |-> TRUE, msg |-> entityNum.msg]
       ELSE skipEntities(skipEntityDelta(entityNum.msg))

\* The slots whose bit is set in the player bitmask.
PlayerSlots(playerBitmask) ==
    {i \in 0..(maxClients - 1) : (playerBitmask[(i \div 8) + 1] \div (2 ^ (i % 8))) % 2 /= 0}

\* The player deltas of a frame: a client number and a delta for each of the
\* n slots whose bit is set in the player bitmask.
RECURSIVE skipPlayers(_, _)
skipPlayers(msg, n) ==
    IF n = 0 THEN msg ELSE skipPlayers(skipPlayerDelta(ReadByte(msg).msg), n - 1)

\* The configstring updates of a frame, in the order they are stored.
RECURSIVE readUpdates(_, _, _)
readUpdates(msg, i, csCount) ==
    IF i >= csCount THEN <<>>
    ELSE LET csIndex == ReadShort(msg)
             csLen == ReadShort(csIndex.msg)
             csData == ReadData(csLen.msg, csLen.v)
         IN IF csLen.v > 0 /\ csLen.v < 8192
            THEN <<[index |-> csIndex.v, value |-> BytesToString(csData.v)]>>
                 \o readUpdates(csData.msg, i + 1, csCount)
            ELSE readUpdates(csLen.msg, i + 1, csCount)

\* parseOneFrame: the count it returns and the updates it stores, in order.
parseOneFrame(frameData) ==
    LET time == ReadLong(NewMsgReader(frameData))
        entityMask == SkipBits(time, 8 * (maxGentities \div 8))
        entities == skipEntities(entityMask)
        playerBitmask == ReadData(entities.msg, maxClients \div 8)
        players == skipPlayers(playerBitmask.msg, Cardinality(PlayerSlots(playerBitmask.v)))
        csCount == ReadShort(players)
    IN IF entities.truncated THEN [n |-> 0, updates |-> <<>>]
       ELSE IF csCount.v < 0 \/ csCount.v > csMax THEN [n |-> 0, updates |-> <<>>]
       ELSE [n |-> csCount.v, updates |-> readUpdates(csCount.msg, 0, csCount.v)]

\* strings.Split(s, sep) for a separator of one character.
RECURSIVE Split(_, _)
Split(s, sep) ==
    IF IndexOf(s, sep) = 0 THEN <<s>>
    ELSE <<SubSeq(s, 1, IndexOf(s, sep) - 1)>>
         \o Split(SubSeq(s, IndexOf(s, sep) + Len(sep), Len(s)), sep)

RECURSIVE PairUp(_, _, _)
PairUp(parts, i, result) ==
    IF i + 1 > Len(parts) THEN result
    ELSE PairUp(parts, i + 2, MapPut(result, parts[i], parts[i + 1]))

\* parseBackslashKV: key -> value of a backslash-delimited string.
parseBackslashKV(s) ==
    PairUp(Split(IF HasPrefix(s, <<"\\">>) THEN Tail(s) ELSE s, <<"\\">>), 1, <<>>)

\* kvs[key] on a Go map of strings: the empty string for a key not in it.
Lookup(kvs, key) == IF key \in DOMAIN kvs THEN kvs[key] ELSE <<>>

RECURSIVE DigitsValue(_, _)
DigitsValue(s, acc) ==
    IF s = <<>> THEN acc ELSE DigitsValue(Tail(s), 10 * acc + (Ord(Head(s)) - Ord("0")))

\* strconv.Atoi: an optional sign and decimal digits; anything else is an error.
Atoi(s) ==
    LET signed == s /= <<>> /\ Head(s) \in {"+", "-"}
        digits == IF signed THEN Tail(s) ELSE s
    IN IF digits = <<>> \/ \E i \in DOMAIN digits : ~IsDigit(digits[i]) THEN [err |-> TRUE]
       ELSE [err |-> FALSE,
             v |-> IF signed /\ Head(s) = "-" THEN -DigitsValue(digits, 0)
                   ELSE DigitsValue(digits, 0)]

\* The indices lo .. hi-1 that the table has; the loops of buildDemoInfo do
\* nothing at the others.
Present(cs, lo, hi) == {i \in DOMAIN cs : i >= lo /\ i < hi}

Min(S) == CHOOSE i \in S : \A j \in S : i <= j

\* Mutant of CollectValues: a value is collected again when it repeats.
RECURSIVE CollectValues_Repeats(_, _, _, _)
CollectValues_Repeats(cs, todo, skipStar, acc) ==
    IF todo = {} THEN acc
    ELSE LET v == cs[Min(todo)]
         IN CollectValues_Repeats(cs, todo \ {Min(todo)}, skipStar,
                IF v /= <<>> /\ ~(skipStar /\ HasPrefix(v, <<"*">>))
                THEN Append(acc, v) ELSE acc)

\* The distinct values at the indices todo in index order, empty values left
\* out and, for the models, those that start with "*".
RECURSIVE CollectValues(_, _, _, _)
CollectValues(cs, todo, skipStar, acc) ==
    IF todo = {} THEN acc
    ELSE LET v == cs[Min(todo)]
         IN CollectValues(cs, todo \ {Min(todo)}, skipStar,
                IF v /= <<>> /\ ~(skipStar /\ HasPrefix(v, <<"*">>)) /\ v \notin Range(acc)
                THEN Append(acc, v) ELSE acc)

\* The player infos at the indices todo in index order; seen holds the keys
\* model|hmodel of the infos collected so far.
RECURSIVE CollectPlayers(_, _, _, _)
CollectPlayers(cs, todo, seen, acc) ==
    IF todo = {} THEN acc
    ELSE LET v == cs[Min(todo)]
             kvs == parseBackslashKV(v)
             model == Lookup(kvs, <<"m", "o", "d", "e", "l">>)
             hmodel == Lookup(kvs, <<"h", "m", "o", "d", "e", "l">>)
             key == model \o <<"|">> \o hmodel
         IN IF v = <<>> \/ model = <<>> \/ key \in seen
            THEN CollectPlayers(cs, todo \ {Min(todo)}, seen, acc)
            ELSE CollectPlayers(cs, todo \ {Min(todo)}, seen \cup {key},
                                Append(acc, [Model |-> model, HModel |-> hmodel]))

buildDemoInfo(cs) ==
    LET serverInfo == IF csServerInfo \in DOMAIN cs THEN parseBackslashKV(cs[csServerInfo])
                      ELSE <<>>
        sysInfo == IF csSystemInfo \in DOMAIN cs THEN parseBackslashKV(cs[csSystemInfo])
                   ELSE <<>>
        gt == Atoi(Lookup(serverInfo, <<"g", "_", "g", "a", "m", "e", "t", "y", "p", "e">>))
    IN [MapName |-> Lookup(serverInfo, <<"m", "a", "p", "n", "a", "m", "e">>),
        FSGame |-> IF Lookup(serverInfo, <<"f", "s", "_", "g", "a", "m", "e">>) /= <<>>
                   THEN Lookup(serverInfo, <<"f", "s", "_", "g", "a", "m", "e">>)
                   ELSE Lookup(sysInfo, <<"f", "s", "_", "g", "a", "m", "e">>),
        GameType |-> IF gt.err THEN 0 ELSE gt.v,
        Models |-> CollectValues(cs, Present(cs, csModels, csModels + 256), TRUE, <<>>),
        Sounds |-> CollectValues(cs, Present(cs, csSounds, csSounds + 256), FALSE, <<>>),
        PlayerInfos |-> CollectPlayers(cs, Present(cs, csPlayers, csPlayers + 64), {}, <<>>)]

\* The offset after the null-terminated string that starts at offset.
RECURSIVE SkipString(_, _)
SkipString(data, offset) ==
    IF offset < Len(data) /\ data[offset + 1] /= 0 THEN SkipString(data, offset + 1)
    ELSE offset + 1

Magic == <<84, 86, 68, 49>>

\* len(data) of the replay file: its header part and the compressed frames.
FileLen(file) == Len(file.data) + file.tail.len

\* What zstd yields from data[offset:]: the frames of a stream that starts
\* there, nothing from bytes that are no stream.
Decompress(file, offset) ==
    IF file.tail.len > 0 /\ offset = Len(file.data) THEN file.tail.frames ELSE <<>>

\* The header loop goes on: four bytes are left, the index is not the end
\* marker and the value lies within the file.
HeaderEntryAt(file, offset) ==
    /\ offset + 4 <= FileLen(file)
    /\ Uint16(file.data, offset) /= 65535
    /\ offset + 4 + Uint16(file.data, offset + 2) <= FileLen(file)

\* The offset at which the header loop stops.
HeaderEndOffset(file, offset) ==
    IF offset + 4 > FileLen(file) THEN offset
    ELSE IF Uint16(file.data, offset) = 65535 THEN offset + 2
    ELSE offset + 4

\* The frame loop going on after a size of 0.
FrameAt_ZeroGoesOn(decompressed, pos) ==
    /\ pos + 4 <= Len(decompressed)
    /\ pos + 4 + Uint32(decompressed, pos) <= Len(decompressed)

\* The frame loop goes on: a size is left, it is not 0 and the frame lies
\* within the decompressed bytes.
FrameAt(decompressed, pos) ==
    /\ pos + 4 <= Len(decompressed)
    /\ Uint32(decompressed, pos) /= 0
    /\ pos + 4 + Uint32(decompressed, pos) <= Len(decompressed)

NotATVD == [called |-> TRUE, err |-> "not a TVD file"]
Returned == [called |-> TRUE, err |-> "nil"]

\* ParseDemo checks the magic and skips the fixed header and its two strings.
OpenDemo ==
    /\ pc.phase = "open"
    /\ IF FileLen(input.file) < 20 \/ SubSeq(input.file.data, 1, 4) /= Magic
       THEN /\ output' = NotATVD
            /\ pc' = [phase |-> "done"]
       ELSE /\ pc' = [phase |-> "header",
                      offset |-> SkipString(input.file.data, SkipString(input.file.data, 16))]
            /\ UNCHANGED output
    /\ UNCHANGED <<input, zips, manifest, written, calls, configstrings, stored, info>>

\* One entry of the header's string table; an empty value is not stored.
HeaderEntry ==
    /\ pc.phase = "header"
    /\ HeaderEntryAt(input.file, pc.offset)
    /\ LET index == Uint16(input.file.data, pc.offset)
           length == Uint16(input.file.data, pc.offset + 2)
           value == BytesToString(SubSeq(input.file.data, pc.offset + 5,
                                         pc.offset + 4 + length))
       IN /\ IF value /= <<>>
             THEN /\ configstrings' = StoreCS(configstrings, index, value)
                  /\ stored' = Append(stored, [index |-> index, value |-> value])
             ELSE UNCHANGED <<configstrings, stored>>
          /\ pc' = [pc EXCEPT !.offset = @ + 4 + length]
    /\ UNCHANGED <<input, output, zips, manifest, written, calls, info>>

\* The header loop ends; what follows the header is decompressed.
HeaderEnd ==
    /\ pc.phase = "header"
    /\ ~HeaderEntryAt(input.file, pc.offset)
    /\ pc' = [phase |-> "frames", pos |-> 0,
              decompressed |->
                  IF HeaderEndOffset(input.file, pc.offset) < FileLen(input.file)
                  THEN Decompress(input.file, HeaderEndOffset(input.file, pc.offset))
                  ELSE <<>>]
    /\ UNCHANGED <<input, output, zips, manifest, written, calls, configstrings, stored, info>>

\* The frame loop's step over one frame: pos += 4, then pos += frameSize.
FrameStep ==
    /\ pc.phase = "frames"
    /\ FrameAt(pc.decompressed, pc.pos)
    /\ pc' = [pc EXCEPT !.pos = @ + 4 + Uint32(pc.decompressed, pc.pos)]

\* One frame of the stream: parseOneFrame stores its updates in order.
Frame ==
    /\ FrameStep
    /\ LET frameSize == Uint32(pc.decompressed, pc.pos)
           frame == parseOneFrame(SubSeq(pc.decompressed, pc.pos + 5, pc.pos + 4 + frameSize))
       IN /\ configstrings' = StoreAll(configstrings, frame.updates)
          /\ stored' = stored \o frame.updates
    /\ UNCHANGED <<input, output, zips, manifest, written, calls, info>>

\* The frame loop's end.
ReturnStep ==
    /\ pc.phase = "frames"
    /\ ~FrameAt(pc.decompressed, pc.pos)
    /\ pc' = [phase |-> "done"]

\* The frame loop ends and ParseDemo returns buildDemoInfo(configstrings).
ReturnInfo ==
    /\ ReturnStep
    /\ info' = buildDemoInfo(configstrings)
    /\ output' = Returned
    /\ UNCHANGED <<input, zips, manifest, written, calls, configstrings, stored>>

NextDemo == OpenDemo \/ HeaderEntry \/ HeaderEnd \/ Frame \/ ReturnInfo

-----------------------------------------------------------------------------
(* Specification of ParseDemo over bounded replay files *)

\* Header entries and frames of a replay, together.
MaxParts == 3

\* The bytes of a text.
StringBytes(s) == [i \in 1..Len(s) |-> Ord(s[i])]

\* A number as n bits, the low bit first.
RECURSIVE Bits(_, _)
Bits(v, n) == IF n = 0 THEN <<>> ELSE <<v % 2>> \o Bits(v \div 2, n - 1)

Zeros(n) == [i \in 1..n |-> 0]

RECURSIVE BytesBits(_)
BytesBits(bytes) == IF bytes = <<>> THEN <<>> ELSE Bits(Head(bytes), 8) \o BytesBits(Tail(bytes))

\* Bits packed into bytes, the last byte filled up with zeros.
PackBits(bits) ==
    [i \in 1..((Len(bits) + 7) \div 8) |->
        (IF 8 * i - 7 <= Len(bits) THEN bits[8 * i - 7] ELSE 0)
        + (IF 8 * i - 6 <= Len(bits) THEN 2 * bits[8 * i - 6] ELSE 0)
        + (IF 8 * i - 5 <= Len(bits) THEN 4 * bits[8 * i - 5] ELSE 0)
        + (IF 8 * i - 4 <= Len(bits) THEN 8 * bits[8 * i - 4] ELSE 0)
        + (IF 8 * i - 3 <= Len(bits) THEN 16 * bits[8 * i - 3] ELSE 0)
        + (IF 8 * i - 2 <= Len(bits) THEN 32 * bits[8 * i - 2] ELSE 0)
        + (IF 8 * i - 1 <= Len(bits) THEN 64 * bits[8 * i - 1] ELSE 0)
        + (IF 8 * i <= Len(bits) THEN 128 * bits[8 * i] ELSE 0)]

\* A 16-bit number on the wire, a negative one as its two's complement.
Short(v) == Bits(IF v < 0 THEN v + 65536 ELSE v, 16)

\* An entity delta with three fields: a 32-bit integer, an integral float and
\* an unchanged field; it follows the number of entity 5.
EntityBits ==
    Bits(5, gentitynumBits) \o <<0, 1>> \o Bits(3, 8)
    \o <<1, 1>> \o Zeros(32) \o <<1, 1, 0>> \o Zeros(floatIntBits) \o <<0>>

\* A removed entity, number 7.
RemovedEntityBits == Bits(7, gentitynumBits) \o <<1>>

\* The delta of the player in slot 2: two fields, two stats, one powerup.
PlayerBits ==
    Bits(2, 8) \o Bits(2, 8) \o <<1>> \o Zeros(32) \o <<1, 0>> \o Zeros(floatIntBits)
    \o <<1>> \o <<1>> \o Bits(5, maxStats) \o Zeros(32)
    \o <<0>> \o <<0>> \o <<1>> \o Bits(2, maxPowerups) \o Zeros(32)

\* An entity delta that declares more fields than the table has, and nothing
\* after the count; it follows the number of entity 5.
OverEntityBits == Bits(5, gentitynumBits) \o <<0, 1>> \o Bits(numEntityFields + 1, 8)

\* The delta of the player in slot 2 that declares more fields than the table
\* has, and nothing after the count.
OverPlayerBits == Bits(2, 8) \o Bits(numPlayerFields + 1, 8)

\* An update as written into a frame: its index, the length of its value and
\* the value's bytes.
Update(index, value) == [index |-> index, length |-> Len(value), value |-> value]

\* An update that declares a length and brings no bytes.
NoBytes(index, length) == [index |-> index, length |-> length, value |-> <<>>]

RECURSIVE UpdatesBits(_)
UpdatesBits(updates) ==
    IF updates = <<>> THEN <<>>
    ELSE Short(Head(updates).index) \o Short(Head(updates).length)
         \o BytesBits(StringBytes(Head(updates).value)) \o UpdatesBits(Tail(updates))

\* A frame: server time, entity bitmask, entity deltas and end marker, player
\* bitmask and deltas, the update count and the updates.  A cut frame ends
\* after the number of its first entity; a frame that is over has a delta with
\* a field count above the table's.
FrameBits(f) ==
    IF f.cut THEN Zeros(32) \o Zeros(maxGentities) \o Bits(5, gentitynumBits)
    ELSE Zeros(32) \o Zeros(maxGentities)
         \o (IF f.over = "entity" THEN OverEntityBits
             ELSE IF f.busy THEN EntityBits \o RemovedEntityBits ELSE <<>>)
         \o Bits(maxGentities - 1, gentitynumBits)
         \o (IF f.over = "player" THEN Bits(4, 8) \o Zeros(56) \o OverPlayerBits
             ELSE IF f.busy THEN Bits(4, 8) \o Zeros(56) \o PlayerBits ELSE Zeros(maxClients))
         \o Short(f.count) \o UpdatesBits(f.updates)

\* A frame in the decompressed stream: its size in four bytes, then its bytes.
EncodeFrame(f) ==
    LET frameData == PackBits(FrameBits(f))
    IN <<Len(frameData) % 256, Len(frameData) \div 256, 0, 0>> \o frameData

RECURSIVE EncodeFrames(_)
EncodeFrames(frames) ==
    IF frames = <<>> THEN <<>> ELSE EncodeFrame(Head(frames)) \o EncodeFrames(Tail(frames))

RECURSIVE EncodeEntries(_)
EncodeEntries(entries) ==
    IF entries = <<>> THEN <<>>
    ELSE <<Head(entries).index % 256, Head(entries).index \div 256,
           Len(Head(entries).value) % 256, Len(Head(entries).value) \div 256>>
         \o StringBytes(Head(entries).value) \o EncodeEntries(Tail(entries))

\* The header part of a replay: magic, protocol, sv_fps, maxclients, map name,
\* timestamp and string table.  The table ends with the end marker, at the
\* end of the file, or cut short in its last byte.
EncodeHeader(d) ==
    LET body == (IF d.ending = "badmagic" THEN <<84, 86, 68, 50>> ELSE Magic)
                \o <<68, 0, 0, 0, 40, 0, 0, 0, 64, 0, 0, 0>>
                \o StringBytes(<<"q", "3", "d", "m", "1">>) \o <<0>> \o StringBytes(<<"2", "0", "2", "6">>) \o <<0>>
                \o EncodeEntries(d.header)
    IN IF d.ending = "cut" THEN SubSeq(body, 1, Len(body) - 1)
       ELSE IF d.ending = "eof" THEN body
       ELSE body \o <<255, 255>>

\* What the decompressed stream holds after its frames: nothing; a size of 0
\* and a frame after it; a frame whose size is one more than the bytes that
\* are left; or three bytes, too few for a size.
CloseBytes(close, frameData) ==
    CASE close = "end" -> <<>>
      [] close = "zero" -> <<0, 0, 0, 0>> \o <<Len(frameData) % 256, Len(frameData) \div 256, 0, 0>>
                           \o frameData
      [] close = "long" -> <<(Len(frameData) + 1) % 256, (Len(frameData) + 1) \div 256, 0, 0>>
                           \o frameData
      [] close = "short" -> <<1, 0, 0>>

\* The frame that follows a size of 0 or has a size beyond the stream.
ClosingFrame ==
    [cut |-> FALSE, busy |-> FALSE, over |-> "none", count |-> 1,
     updates |-> <<Update(42, <<"z">>)>>]

\* The decompressed stream of a description.
EncodeStream(d) ==
    EncodeFrames(d.frames) \o CloseBytes(d.close, PackBits(FrameBits(ClosingFrame)))

\* The replay file of a description.
EncodeDemo(d) ==
    [data |-> EncodeHeader(d),
     tail |-> [len |-> Len(EncodeStream(d)), frames |-> EncodeStream(d)]]

Entry16(index, value) == [index |-> index, value |-> value]

ServerInfo1 == <<"\\", "m", "a", "p", "n", "a", "m", "e", "\\", "q", "3", "d", "m", "1", "\\", "g", "_", "g", "a", "m", "e", "t", "y", "p", "e", "\\", "0">>
ServerInfo2 == <<"g", "_", "g", "a", "m", "e", "t", "y", "p", "e", "\\", "-", "3", "\\", "m", "a", "p", "n", "a", "m", "e", "\\", "M", "1", "\\", "f", "s", "_", "g", "a", "m", "e", "\\", "r", "a">>
SargeModel == <<"m", "o", "d", "e", "l", "s", "/", "p", "l", "a", "y", "e", "r", "s", "/", "s", "a", "r", "g", "e", "/", "m", "o", "d", "e", "l">>
Player1 == <<"n", "\\", "p", "\\", "m", "o", "d", "e", "l", "\\", "a", "|", "b", "\\", "h", "m", "o", "d", "e", "l", "\\", "c">>
Player2 == <<"\\", "m", "o", "d", "e", "l", "\\", "a", "\\", "h", "m", "o", "d", "e", "l", "\\", "b", "|", "c">>
Player3 == <<"\\", "m", "o", "d", "e", "l", "\\", "a", "\\", "h", "m", "o", "d", "e", "l", "\\", "b">>
Player4 == <<"h", "m", "o", "d", "e", "l", "\\", "b", "\\", "m", "o", "d", "e", "l", "\\", "a">>

HeaderPool ==
    { Entry16(0, ServerInfo1), Entry16(32, <<"*", "1">>), Entry16(34, <<"m", "/", "b">>),
      Entry16(288, <<"s", "/", "a">>), Entry16(544, Player1), Entry16(2000, <<"x">>),
      Entry16(35, <<>>) }

FrameOf(busy, count, updates) ==
    [cut |-> FALSE, busy |-> busy, over |-> "none", count |-> count, updates |-> updates]

OverFrame(over, count, updates) ==
    [cut |-> FALSE, busy |-> FALSE, over |-> over, count |-> count, updates |-> updates]

FramePool ==
    { FrameOf(FALSE, 1, <<Update(32, SargeModel)>>),
      FrameOf(FALSE, 3, <<Update(33, <<"m", "/", "a">>), Update(33, <<"m", "/", "b">>),
                          Update(3000, <<"z">>)>>),
      FrameOf(TRUE, 2, <<Update(0, ServerInfo2), Update(545, Player2)>>),
      FrameOf(FALSE, 5, <<Update(290, <<"s", "/", "b">>), NoBytes(289, 0), Update(546, <<"n", "\\", "b", "o", "t">>),
                          NoBytes(291, -1), Update(289, <<"s", "/", "a">>)>>),
      FrameOf(FALSE, -1, <<Update(35, <<"y">>)>>),
      [cut |-> TRUE, busy |-> FALSE, over |-> "none", count |-> 0, updates |-> <<>>],
      FrameOf(TRUE, 3, <<Update(545, Player3), Update(547, Player4)>>) }

Endings(frames) ==
    IF frames = <<>> THEN {"marker", "eof", "cut", "badmagic"} ELSE {"marker"}

\* Frames with a field count above the table's, each with one update after it.
OverPool ==
    { OverFrame("entity", 1, <<Update(40, <<"q">>)>>),
      OverFrame("player", 1, <<Update(41, <<"r">>)>>),
      FrameOf(FALSE, 1, <<Update(32, SargeModel)>>) }

MaxOverParts == 2

Demos ==
    UNION {UNION {[header : {h}, frames : {f}, ending : Endings(f), close : {"end"}] :
                      f \in SeqsUpTo(FramePool, MaxParts - Len(h))} :
               h \in SeqsUpTo(HeaderPool, MaxParts)}
    \cup [header : {<<>>, <<Entry16(34, <<"m", "/", "b">>)>>},
          frames : SeqsUpTo(OverPool, MaxOverParts), ending : {"marker"}, close : {"end"}]
    \cup [header : {<<>>}, frames : SeqsUpTo(OverPool, MaxOverParts), ending : {"marker"},
          close : {"zero", "long", "short"}]

InitDemo ==
    /\ \E d \in Demos : input = [desc |-> d, file |-> EncodeDemo(d)]
    /\ output = NotCalled
    /\ configstrings = <<>>
    /\ stored = <<>>
    /\ pc = [phase |-> "open"]
    /\ info = <<>>
    /\ DiskIdle
    /\ PakIdle

SpecDemo == InitDemo /\ [][NextDemo]_vars

\* ParseDemo runs on until it returns: each of its steps is taken when it can
\* be, those of the frame loop as steps of its position.
SpecDemoFair ==
    /\ SpecDemo
    /\ WF_vars(OpenDemo) /\ WF_vars(HeaderEntry) /\ WF_vars(HeaderEnd)
    /\ WF_pc(FrameStep) /\ WF_pc(ReturnStep)

\* The updates a frame of the description gets stored: none of a cut frame or
\* of one with a count outside 0..csMax, else those among its first count
\* updates whose length is in 1..8191.
RECURSIVE ValidUpdates(_)
ValidUpdates(updates) ==
    IF updates = <<>> THEN <<>>
    ELSE (IF Head(updates).length > 0 /\ Head(updates).length < 8192
          THEN <<[index |-> Head(updates).index, value |-> Head(updates).value]>> ELSE <<>>)
         \o ValidUpdates(Tail(updates))

FrameStores(f) ==
    IF f.cut \/ f.count < 0 \/ f.count > csMax THEN <<>>
    ELSE ValidUpdates(SubSeq(f.updates, 1, IF f.count < Len(f.updates) THEN f.count
                                           ELSE Len(f.updates)))

RECURSIVE FramesStores(_)
FramesStores(frames) ==
    IF frames = <<>> THEN <<>> ELSE FrameStores(Head(frames)) \o FramesStores(Tail(frames))

NonEmptyValue(e) == e.value /= <<>>

\* The stores of the header of the description: its entries with a value, the
\* last entry left out when the file is cut short in it.
HeaderStores(d) ==
    SelectSeq(IF d.ending = "cut" /\ d.header /= <<>>
              THEN SubSeq(d.header, 1, Len(d.header) - 1) ELSE d.header, NonEmptyValue)

\* The stores the replay of a description calls for, in stream order.
ExpectedStores(d) ==
    IF d.ending = "badmagic" THEN <<>> ELSE HeaderStores(d) \o FramesStores(d.frames)

\* The value of the last update of a log for an index.
LastStored(log, index) ==
    log[CHOOSE i \in DOMAIN log : log[i].index = index
                                  /\ \A j \in DOMAIN log : j > i => log[j].index /= index].value

IsPrefix(s, t) == Len(s) <= Len(t) /\ s = SubSeq(t, 1, Len(s))

\* C8: the table holds, for each index, the value of the last update stored
\* for it, the updates taken in stream order: the header's entries, then the
\* frames in order and the updates of a frame in order.
C8_LastUpdateWins ==
    /\ IsPrefix(stored, ExpectedStores(input.desc))
    /\ (pc.phase = "done" => stored = ExpectedStores(input.desc))
    /\ DOMAIN configstrings = {stored[i].index : i \in DOMAIN stored}
    /\ \A index \in DOMAIN configstrings : configstrings[index] = LastStored(stored, index)

\* A replay whose header and a later frame store index 0, the frame's value
\* being the one the table ends with.
C8_Witness ==
    /\ pc.phase = "done"
    /\ \E i, j \in DOMAIN stored :
          /\ i < j
          /\ stored[i].index = 0 /\ stored[j].index = 0
          /\ stored[i].value = ServerInfo1 /\ stored[j].value = ServerInfo2
    /\ configstrings[0] = ServerInfo2
    /\ info.MapName = <<"M", "1">>

\* C9: every index of the Replay State Table lies in 0..1023.
C9_IndicesInRange == \A index \in DOMAIN configstrings : index \in 0..(csMax - 1)

\* The k-th smallest number of a set.
Nth(S, k) == CHOOSE x \in S : Cardinality({y \in S : y < x}) = k - 1

\* The values of the table at its indices lo .. hi-1, in index order.
ValuesAt(cs, lo, hi) ==
    [k \in 1..Cardinality(Present(cs, lo, hi)) |-> cs[Nth(Present(cs, lo, hi), k)]]

\* The elements of a list at the positions keep, in the order of the list.
Pick(list, keep) == [k \in 1..Cardinality(keep) |-> list[Nth(keep, k)]]

\* A list without the elements that repeat an earlier one.
Distinct(list) ==
    Pick(list, {i \in DOMAIN list : \A j \in 1..(i - 1) : list[j] /= list[i]})

NotStarred(list) == Pick(list, {i \in DOMAIN list : list[i] /= <<>> /\ list[i][1] /= "*"})

\* The server infos and the player strings of the replays, with what they say.
KnownServerInfos ==
    { [text |-> ServerInfo1, mapname |-> <<"q", "3", "d", "m", "1">>, gametype |-> 0],
      [text |-> ServerInfo2, mapname |-> <<"M", "1">>, gametype |-> -3] }

KnownPlayers ==
    { [text |-> Player1, Model |-> <<"a", "|", "b">>, HModel |-> <<"c">>],
      [text |-> Player2, Model |-> <<"a">>, HModel |-> <<"b", "|", "c">>],
      [text |-> Player3, Model |-> <<"a">>, HModel |-> <<"b">>],
      [text |-> Player4, Model |-> <<"a">>, HModel |-> <<"b">>],
      [text |-> <<"n", "\\", "b", "o", "t">>, Model |-> <<>>, HModel |-> <<>>] }

\* The (model, hmodel) pair a player string states.
PairOf(text) ==
    LET p == CHOOSE p \in KnownPlayers : p.text = text
    IN [Model |-> p.Model, HModel |-> p.HModel]

\* The pairs of the player strings of the table, in index order.
PlayerPairs(cs) ==
    [k \in DOMAIN ValuesAt(cs, csPlayers, csPlayers + 64) |->
        PairOf(ValuesAt(cs, csPlayers, csPlayers + 64)[k])]

\* The pairs that have a model, each kept unless model|hmodel reads the same
\* as for an earlier one.
KeyedPairs(pairs) ==
    LET named == Pick(pairs, {i \in DOMAIN pairs : pairs[i].Model /= <<>>})
        key(p) == p.Model \o <<"|">> \o p.HModel
    IN Pick(named, {i \in DOMAIN named : \A j \in 1..(i - 1) : key(named[j]) /= key(named[i])})

\* ParseDemo has returned a summary.
Summarized == pc.phase = "done" /\ output = Returned

\* What C7 says of map name, game type, models and sounds.
C7_Common ==
    /\ \A s \in KnownServerInfos :
          0 \in DOMAIN configstrings /\ configstrings[0] = s.text =>
              info.MapName = s.mapname /\ info.GameType = s.gametype
    /\ info.Models = Distinct(NotStarred(ValuesAt(configstrings, csModels, csModels + 256)))
    /\ info.Sounds = Distinct(ValuesAt(configstrings, csSounds, csSounds + 256))

-----------------------------------------------------------------------------
(* Binary decoders: the bytes of a compiled map and of a model *)

\* The decoders above stand for these by their results; here the files are
\* bytes.  Offsets and lengths of the files of the check stay below 2^31.
bspMagic == <<73, 66, 83, 80>>
bspVersion == 46
bspLumpEntities == 0
bspLumpShaders == 1
bspNumLumps == 17
bspShaderSize == 72
bspHeaderSize == 8 + bspNumLumps * 8

md3Magic == <<73, 68, 80, 51>>
md3Version == 15
md3HeaderSize == 108
md3ShaderSize == 68
md3SurfaceHeaderSize == 12 * 4 + 64 + 4

\* bytes.Reader.ReadAt(b, off) for len(b) = n: io.EOF unless all n bytes lie
\* within the reader.
ReadAt(r, n, off) ==
    IF off >= Len(r) \/ off + n > Len(r) THEN [err |-> TRUE]
    ELSE [err |-> FALSE, b |-> SubSeq(r, off + 1, off + n)]

\* int32(binary.LittleEndian.Uint32(data[offset:]))
Int32(data, offset) ==
    data[offset + 1] + 256 * data[offset + 2] + 65536 * data[offset + 3]
    + 16777216 * (IF data[offset + 4] >= 128 THEN data[offset + 4] - 256 ELSE data[offset + 4])

readNullTerminated(b) ==
    IF IndexOf(b, <<0>>) = 0 THEN b ELSE SubSeq(b, 1, IndexOf(b, <<0>>) - 1)

\* strings.ReplaceAll(s, "\\", "/") on the bytes of s.
SlashesOf(b) == [i \in DOMAIN b |-> IF b[i] = 92 THEN 47 ELSE b[i]]

\* The name of a 64-byte name field.
NameOf(nameBytes) == BytesToString(SlashesOf(readNullTerminated(nameBytes)))

IsSpaceByte(c) == c \in {9, 10, 11, 12, 13, 32}

RECURSIVE TrimSpaceBytes(_)
TrimSpaceBytes(b) ==
    IF b = <<>> THEN b
    ELSE IF IsSpaceByte(Head(b)) THEN TrimSpaceBytes(Tail(b))
    ELSE IF IsSpaceByte(b[Len(b)]) THEN TrimSpaceBytes(SubSeq(b, 1, Len(b) - 1))
    ELSE b

\* strings.Fields(value)[0], <<>> if there is no field.
FirstField(value) ==
    LET First(t, ends) ==
            IF ends = {} THEN t ELSE SubSeq(t, 1, (CHOOSE i \in ends : \A j \in ends : i <= j) - 1)
        Of(t) == First(t, {i \in DOMAIN t : IsSpaceByte(t[i])})
    IN Of(TrimSpaceBytes(value))

\* parseEntityKV: the first two quoted strings of a line.
parseEntityKV(line) ==
    LET Quote(s) == IndexOf(s, <<34>>)
        Value(key, rest2) ==
            IF Quote(rest2) = 0 THEN [key |-> key, value |-> <<>>]
            ELSE [key |-> key, value |-> SubSeq(rest2, 1, Quote(rest2) - 1)]
        Second(key, rest) ==
            IF Quote(rest) = 0 THEN [key |-> key, value |-> <<>>]
            ELSE Value(key, SubSeq(rest, Quote(rest) + 1, Len(rest)))
        Key(rest1) ==
            IF Quote(rest1) = 0 THEN [key |-> <<>>, value |-> <<>>]
            ELSE Second(SubSeq(rest1, 1, Quote(rest1) - 1),
                        SubSeq(rest1, Quote(rest1) + 1, Len(rest1)))
    IN IF Quote(line) = 0 THEN [key |-> <<>>, value |-> <<>>]
       ELSE Key(SubSeq(line, Quote(line) + 1, Len(line)))

LowerBytes(b) == [i \in DOMAIN b |-> IF b[i] >= 65 /\ b[i] <= 90 THEN b[i] + 32 ELSE b[i]]

\* The switch of parseEntities on one key/value pair.
EntityRef(assets, key, value) ==
    IF key = StringBytes(<<"m", "u", "s", "i", "c">>)
    THEN IF FirstField(value) /= <<>>
         THEN [assets EXCEPT !.Music = Append(@, BytesToString(FirstField(value)))] ELSE assets
    ELSE IF value = <<>> \/ Head(value) = 42 THEN assets
    ELSE IF key = StringBytes(<<"n", "o", "i", "s", "e">>)
    THEN [assets EXCEPT !.Sounds = Append(@, BytesToString(value))]
    ELSE IF key = StringBytes(<<"m", "o", "d", "e", "l", "2">>)
    THEN [assets EXCEPT !.Models = Append(@, BytesToString(value))]
    ELSE assets

RECURSIVE EntityLines(_, _)
EntityLines(lines, assets) ==
    IF lines = <<>> THEN assets
    ELSE LET Pair(kv) ==
                 IF kv.key = <<>> THEN assets
                 ELSE EntityRef(assets, LowerBytes(kv.key), SlashesOf(kv.value))
             Line(line) ==
                 IF line \in {<<>>, <<123>>, <<125>>} THEN assets ELSE Pair(parseEntityKV(line))
         IN EntityLines(Tail(lines), Line(TrimSpaceBytes(Head(lines))))

parseEntities(text, assets) == EntityLines(Split(text, <<10>>), assets)

\* A decoder's error return.
ParseError(msg) == [err |-> TRUE, msg |-> msg]

\* The shader loop of ParseBSP over the records of the shaders lump.
RECURSIVE BspShaders(_, _, _)
BspShaders(shaderData, i, numShaders) ==
    IF i >= numShaders THEN <<>>
    ELSE LET Keep(name) == IF name /= <<>> /\ Head(name) /= "*" THEN <<name>> ELSE <<>>
         IN Keep(NameOf(SubSeq(shaderData, i * bspShaderSize + 1, i * bspShaderSize + 64)))
            \o BspShaders(shaderData, i + 1, numShaders)

\* ParseBSP(r, size) on the bytes of a file.
ParseBSPBytes(r, size) ==
    LET NoAssets == [err |-> FALSE, Shaders |-> <<>>, Models |-> <<>>, Sounds |-> <<>>, Music |-> <<>>]
        ShadersRead(assets, read, numShaders) ==
            IF read.err THEN ParseError("read shaders lump")
            ELSE [assets EXCEPT !.Shaders = BspShaders(read.b, 0, numShaders)]
        ShadersLump(assets, shaderOffset, shaderLength) ==
            IF shaderLength \div bspShaderSize > 0
            THEN ShadersRead(assets, ReadAt(r, shaderLength, shaderOffset),
                             shaderLength \div bspShaderSize)
            ELSE assets
        Shaders(assets, header) ==
            IF assets.err THEN assets
            ELSE ShadersLump(assets, Uint32(header, 8 + bspLumpShaders * 8),
                             Uint32(header, 8 + bspLumpShaders * 8 + 4))
        EntitiesRead(read) ==
            IF read.err THEN ParseError("read entities lump")
            ELSE parseEntities(read.b, NoAssets)
        EntitiesLump(entOffset, entLength) ==
            IF entLength > 0 THEN EntitiesRead(ReadAt(r, entLength, entOffset)) ELSE NoAssets
        Entities(header) ==
            EntitiesLump(Uint32(header, 8 + bspLumpEntities * 8),
                         Uint32(header, 8 + bspLumpEntities * 8 + 4))
        Header(header) ==
            IF SubSeq(header, 1, 4) /= bspMagic THEN ParseError("invalid BSP magic")
            ELSE IF Uint32(header, 4) /= bspVersion THEN ParseError("unsupported BSP version")
            ELSE Shaders(Entities(header), header)
        Read(read) == IF read.err THEN ParseError("read BSP header") ELSE Header(read.b)
    IN IF size < bspHeaderSize THEN ParseError("BSP too small")
       ELSE Read(ReadAt(r, bspHeaderSize, 0))

\* The shader loop of ParseMD3Shaders over the shader records of a surface:
\* a record beyond the size ends the loop.
RECURSIVE Md3Shaders(_, _, _, _, _, _)
Md3Shaders(r, size, j, numShaders, first, shaders) ==
    IF j >= numShaders THEN shaders
    ELSE IF first + j * md3ShaderSize + md3ShaderSize > size THEN shaders
    ELSE IF ReadAt(r, md3ShaderSize, first + j * md3ShaderSize).err THEN shaders
    ELSE LET Seen(name) ==
                 IF name /= <<>> /\ name \notin Range(shaders) THEN Append(shaders, name)
                 ELSE shaders
         IN Md3Shaders(r, size, j + 1, numShaders, first,
                Seen(NameOf(SubSeq(ReadAt(r, md3ShaderSize, first + j * md3ShaderSize).b, 1, 64))))

\* The surface loop of ParseMD3Shaders: a surface header beyond the size ends
\* the loop, and what was collected is returned.
RECURSIVE Md3Surfaces(_, _, _, _, _, _)
Md3Surfaces(r, size, i, numSurfaces, surfaceOfs, shaders) ==
    LET Surface(surfHeader) ==
            IF SubSeq(surfHeader, 1, 4) /= md3Magic THEN ParseError("invalid MD3 surface magic")
            ELSE Md3Surfaces(r, size, i + 1, numSurfaces, surfaceOfs + Uint32(surfHeader, 104),
                     Md3Shaders(r, size, 0, Int32(surfHeader, 72),
                                surfaceOfs + Uint32(surfHeader, 88), shaders))
        Read(read) == IF read.err THEN ParseError("read MD3 surface header") ELSE Surface(read.b)
    IN IF i >= numSurfaces THEN [err |-> FALSE, shaders |-> shaders]
       ELSE IF surfaceOfs + md3SurfaceHeaderSize > size THEN [err |-> FALSE, shaders |-> shaders]
       ELSE Read(ReadAt(r, md3SurfaceHeaderSize, surfaceOfs))

\* ParseMD3Shaders(r, size) on the bytes of a file.
ParseMD3ShadersBytes(r, size) ==
    LET Header(header) ==
            IF SubSeq(header, 1, 4) /= md3Magic THEN ParseError("invalid MD3 magic")
            ELSE IF Int32(header, 4) /= md3Version THEN ParseError("unsupported MD3 version")
            ELSE Md3Surfaces(r, size, 0, Int32(header, 76), Uint32(header, 96), <<>>)
        Read(read) == IF read.err THEN ParseError("read MD3 header") ELSE Header(read.b)
    IN IF size < md3HeaderSize THEN ParseError("MD3 too small")
       ELSE Read(ReadAt(r, md3HeaderSize, 0))

-----------------------------------------------------------------------------
(* Specification of the binary decoders over whole and cut-off files *)

\* A number below 2^31 as four little-endian bytes.
LE32(v) == <<v % 256, (v \div 256) % 256, (v \div 65536) % 256, (v \div 16777216) % 256>>

\* A name in a field of n bytes, filled up with zeros.
NameField(name, n) == StringBytes(name) \o Zeros(n - Len(name))

RECURSIVE Concat(_)
Concat(seqs) == IF seqs = <<>> THEN <<>> ELSE Head(seqs) \o Concat(Tail(seqs))

\* The first bytes of a file.
CutTo(bytes, n) == SubSeq(bytes, 1, IF n < Len(bytes) THEN n ELSE Len(bytes))

\* The entity text of a map: a music line with a loop flag, a noise, a model
\* with a backslash, a built-in model, and a key that is no reference.
EntityText ==
    Concat(<< StringBytes(<<"{">>), <<10>>,
              StringBytes(<<"\"", "c", "l", "a", "s", "s", "n", "a", "m", "e", "\"", " ", "\"", "w", "o", "r", "l", "d", "s", "p", "a", "w", "n", "\"">>), <<10>>,
              StringBytes(<<" ", "\"", "M", "u", "s", "i", "c", "\"", " ", "\"", "m", "u", "s", "i", "c", "/", "t", ".", "w", "a", "v", " ", "m", "u", "s", "i", "c", "/", "l", "o", "o", "p", ".", "w", "a", "v", "\"">>), <<13, 10>>,
              StringBytes(<<"\"", "n", "o", "i", "s", "e", "\"", " ", "\"", "s", "o", "u", "n", "d", "/", "n", ".", "w", "a", "v", "\"">>), <<10>>,
              StringBytes(<<"\"", "m", "o", "d", "e", "l", "2", "\"", " ", "\"", "m", "o", "d", "e", "l", "s", "\\", "q", ".", "m", "d", "3", "\"">>), <<10>>,
              StringBytes(<<"\"", "m", "o", "d", "e", "l", "2", "\"", " ", "\"", "*", "1", "\"">>), <<10>>,
              StringBytes(<<"}">>), <<10, 0>> >>)

BspShaderNames ==
    { <<>>, << <<"t", "e", "x", "t", "u", "r", "e", "s", "/", "s", "1">> >>, << <<"t", "e", "x", "t", "u", "r", "e", "s", "\\", "a">>, <<"*", "f", "o", "g">>, <<"t", "e", "x", "t", "u", "r", "e", "s", "/", "b">> >> }

\* A compiled map laid out as ParseBSP reads it: the header with the two lumps,
\* the entity text, the shader records of 72 bytes.
BspFile(magic, version, entities, names, slack) ==
    Concat(<< magic, LE32(version),
              LE32(bspHeaderSize), LE32(Len(entities)),
              LE32(bspHeaderSize + Len(entities)), LE32(bspShaderSize * Len(names) + slack),
              Zeros((bspNumLumps - 2) * 8),
              entities,
              Concat([i \in DOMAIN names |-> NameField(names[i], 64) \o LE32(0) \o LE32(i)]) >>)

\* Whole maps and maps cut off in the header, in the entity text, in the
\* shader records and one byte before the end; some declare a shaders lump
\* longer than the records they have.
BspFiles ==
    LET files == {BspFile(magic, version, entities, names, slack) :
                      magic \in {bspMagic, md3Magic}, version \in {bspVersion, bspVersion + 1},
                      entities \in {<<>>, EntityText}, names \in BspShaderNames,
                      slack \in {0, 30}}
    IN {CutTo(f, n) : f \in files,
                      n \in {0, 7, bspHeaderSize - 1, bspHeaderSize, bspHeaderSize + 1,
                             bspHeaderSize + Len(EntityText) + 1}}
       \cup {CutTo(f, Len(f) - 1) : f \in files} \cup files

\* The shader names of the surfaces of a model.
Md3SurfaceNames ==
    { <<>>, << << <<"m", "o", "d", "e", "l", "s", "/", "x">> >> >>,
      << << <<"m", "o", "d", "e", "l", "s", "\\", "x">>, <<"m", "o", "d", "e", "l", "s", "/", "y">> >>, << <<"m", "o", "d", "e", "l", "s", "/", "x">>, <<>> >> >> }

\* A surface as ParseMD3Shaders reads it: its header of 116 bytes with the
\* counts and offsets at 72, 88 and 104, and its shader records of 68 bytes.
Md3Surface(magic, names) ==
    Concat(<< magic, Zeros(68), LE32(Len(names)), Zeros(12),
              LE32(md3SurfaceHeaderSize), Zeros(12),
              LE32(md3SurfaceHeaderSize + md3ShaderSize * Len(names)), Zeros(8),
              Concat([j \in DOMAIN names |-> NameField(names[j], 64) \o LE32(j)]) >>)

\* A model: the header with the surface count at 76 and the surfaces' offset
\* at 96, then the surfaces.  extra surfaces are declared but missing.
Md3File(magic, version, surfaceMagic, surfaces, extra) ==
    Concat(<< magic, LE32(version), Zeros(68), LE32(Len(surfaces) + extra), Zeros(16),
              LE32(md3HeaderSize), Zeros(8),
              Concat([i \in DOMAIN surfaces |-> Md3Surface(surfaceMagic, surfaces[i])]) >>)

\* Whole models and models cut off in the header, in a surface header, in a
\* shader record and one byte before the end.
Md3Files ==
    LET files == {Md3File(magic, version, surfaceMagic, surfaces, extra) :
                      magic \in {md3Magic, bspMagic}, version \in {md3Version, md3Version + 1},
                      surfaceMagic \in {md3Magic, bspMagic}, surfaces \in Md3SurfaceNames,
                      extra \in {0, 1}}
    IN {CutTo(f, n) : f \in files,
                      n \in {0, md3HeaderSize - 1, md3HeaderSize, md3HeaderSize + 50,
                             md3HeaderSize + md3SurfaceHeaderSize,
                             md3HeaderSize + md3SurfaceHeaderSize + 10}}
       \cup {CutTo(f, Len(f) - 1) : f \in files} \cup files

InitDecode ==
    /\ input \in {[op |-> "ParseBSP", r |-> f] : f \in BspFiles}
                 \cup {[op |-> "ParseMD3Shaders", r |-> f] : f \in Md3Files}
    /\ output = NotCalled
    /\ DiskIdle /\ PakIdle /\ DemoIdle

\* ParseBSP(bytes.NewReader(data), int64(len(data)))
CallParseBSP ==
    /\ input.op = "ParseBSP"
    /\ output = NotCalled
    /\ output' = ParseBSPBytes(input.r, Len(input.r))
    /\ UNCHANGED <<input, zips, manifest, written, calls, configstrings, stored, pc, info>>

\* ParseMD3Shaders(bytes.NewReader(data), int64(len(data)))
CallParseMD3Shaders ==
    /\ input.op = "ParseMD3Shaders"
    /\ output = NotCalled
    /\ output' = ParseMD3ShadersBytes(input.r, Len(input.r))
    /\ UNCHANGED <<input, zips, manifest, written, calls, configstrings, stored, pc, info>>

NextDecode == CallParseBSP \/ CallParseMD3Shaders

SpecDecode == InitDecode /\ [][NextDecode]_vars

\* Decoding a compiled map needs bytes beyond its length: the header, an
\* entities lump that is not empty, or a shaders lump with a record.
BspNeedsBeyond(r) ==
    \/ Len(r) < bspHeaderSize
    \/ /\ Len(r) >= bspHeaderSize
       /\ \/ /\ Uint32(r, 8 + bspLumpEntities * 8 + 4) > 0
             /\ Uint32(r, 8 + bspLumpEntities * 8) + Uint32(r, 8 + bspLumpEntities * 8 + 4) > Len(r)
          \/ /\ Uint32(r, 8 + bspLumpShaders * 8 + 4) >= bspShaderSize
             /\ Uint32(r, 8 + bspLumpShaders * 8) + Uint32(r, 8 + bspLumpShaders * 8 + 4) > Len(r)

\* Decoding a model needs bytes beyond its length: the header, the header of
\* the first surface it declares, or that surface's first shader record.
Md3NeedsBeyond(r) ==
    \/ Len(r) < md3HeaderSize
    \/ /\ Len(r) >= md3HeaderSize
       /\ Int32(r, 76) >= 1
       /\ \/ Uint32(r, 96) + md3SurfaceHeaderSize > Len(r)
          \/ /\ Int32(r, Uint32(r, 96) + 72) >= 1
             /\ Uint32(r, 96) + Uint32(r, Uint32(r, 96) + 88) + md3ShaderSize > Len(r)

\* C16: ParseBSP and ParseMD3Shaders return an error whenever decoding needs
\* bytes beyond the length of the input: an input shorter than the header, a
\* lump that extends past the end, a surface or a shader record that extends
\* past the end.
C16_TruncatedInputFails ==
    output /= NotCalled =>
        /\ input.op = "ParseBSP" /\ BspNeedsBeyond(input.r) => output.err
        /\ input.op = "ParseMD3Shaders" /\ Md3NeedsBeyond(input.r) => output.err

\* The stores of a frame's updates up to the first one whose length is outside
\* 1..8191.
RECURSIVE UpToBadLength(_)
UpToBadLength(updates) ==
    IF updates = <<>> THEN <<>>
    ELSE IF Head(updates).length > 0 /\ Head(updates).length < 8192
    THEN <<[index |-> Head(updates).index, value |-> Head(updates).value]>>
         \o UpToBadLength(Tail(updates))
    ELSE <<>>

\* The stores of the frames if a length outside 1..8191 ended the updates of
\* its frame.
RECURSIVE StoresEndedByLength(_)
StoresEndedByLength(frames) ==
    IF frames = <<>> THEN <<>>
    ELSE LET f == Head(frames)
         IN (IF f.cut \/ f.count < 0 \/ f.count > csMax THEN <<>>
             ELSE UpToBadLength(SubSeq(f.updates, 1, IF f.count < Len(f.updates) THEN f.count
                                                     ELSE Len(f.updates))))
            \o StoresEndedByLength(Tail(frames))

\* C18: an update whose length is outside 1..8191 ends the updates of its
\* frame: the parsed replay has stored the header's entries and, of each frame,
\* the updates before the first such length, and the frames after it are
\* parsed as ever.
C18_BadLengthEndsFrameUpdates ==
    pc.phase = "done" /\ input.desc.ending /= "badmagic" =>
        stored = HeaderStores(input.desc) \o StoresEndedByLength(input.desc.frames)

\* The stores of the frames if a field count above the table's, or an update
\* count outside 0..csMax, ended its frame.
RECURSIVE StoresEndedByCount(_)
StoresEndedByCount(frames) ==
    IF frames = <<>> THEN <<>>
    ELSE (IF Head(frames).over /= "none" THEN <<>> ELSE FrameStores(Head(frames)))
         \o StoresEndedByCount(Tail(frames))

\* C19: a field count above 51 in an entity delta or above 48 in a player
\* delta, or an update count outside 0..1024, ends its frame: the parsed replay
\* has stored nothing that comes after the count in that frame, and has
\* stored the updates of the other frames.
C19_BadCountEndsFrame ==
    pc.phase = "done" /\ input.desc.ending /= "badmagic" =>
        stored = HeaderStores(input.desc) \o StoresEndedByCount(input.desc.frames)

(***************************************************************************)
(* Delta skipping over single deltas                                       *)
(***************************************************************************)

\* The positions of the entity table whose fields a delta of the harness may
\* change: a 32-bit integer, two floats, a 10-bit and a 19-bit integer.
EntityPositions == {1, 2, 3, 10, 18}

\* The field counts a delta of the harness declares.
EntityCounts == {0, 1, 2, 3, 10, 18, numEntityFields}

\* What a delta can say about a field of the entity table.
EntityFieldKinds(i) ==
    IF entityFieldBits[i] = 0 THEN {"absent", "zero", "integral", "full"}
    ELSE {"absent", "zero", "int"}

\* The deltas of one entity: removed, unchanged, or with a field count and a
\* word on each position below it.
EntityDeltas ==
    {[kind |-> "removed", lc |-> 0, fields |-> [i \in EntityPositions |-> "absent"]],
     [kind |-> "same", lc |-> 0, fields |-> [i \in EntityPositions |-> "absent"]]}
    \cup UNION {{[kind |-> "fields", lc |-> lc, fields |-> f] :
                    f \in {g \in [EntityPositions -> {"absent", "zero", "int", "integral", "full"}] :
                              \A i \in EntityPositions :
                                  /\ g[i] \in EntityFieldKinds(i)
                                  /\ i > lc => g[i] = "absent"}} :
                   lc \in EntityCounts}

\* What follows a delta in its frame.
DeltaTails == {<<>>, <<1, 1, 1, 1, 1, 1, 1, 1, 1>>}

\* One field of an entity delta on the wire.
EntityFieldOnWire(kind, i) ==
    CASE kind = "absent" -> <<0>>
      [] kind = "zero" -> <<1, 0>>
      [] kind = "int" -> <<1, 1>> \o Bits(5, entityFieldBits[i])
      [] kind = "integral" -> <<1, 1, 0>> \o Bits(3, floatIntBits)
      [] kind = "full" -> <<1, 1, 1>> \o Bits(7, 32)

RECURSIVE EntityFieldsOnWire(_, _)
EntityFieldsOnWire(delta, i) ==
    IF i > delta.lc THEN <<>>
    ELSE EntityFieldOnWire(IF i \in EntityPositions THEN delta.fields[i] ELSE "absent", i)
         \o EntityFieldsOnWire(delta, i + 1)

\* An entity delta on the wire, from its "removed" bit on.
EntityDeltaOnWire(delta) ==
    CASE delta.kind = "removed" -> <<1>>
      [] delta.kind = "same" -> <<0, 0>>
      [] delta.kind = "fields" -> <<0, 1>> \o Bits(delta.lc, 8) \o EntityFieldsOnWire(delta, 1)

\* The positions of the player table whose fields a delta of the harness may
\* change: a 32-bit integer, a float and a signed 16-bit integer.
PlayerPositions == {1, 2, 9}

\* The field counts a delta of the harness declares.
PlayerCounts == {0, 1, 2, 9, numPlayerFields}

PlayerFieldKinds(i) ==
    IF playerFieldBits[i] = 0 THEN {"absent", "integral", "full"} ELSE {"absent", "int"}

\* What a delta can say about one of its four arrays: that it is absent, or
\* the mask of its slots.
ArrayMasks == {-1, 0, 5, 32769}

\* The deltas of one player: a field count, a word on each position below
\* it, and a word on each of the four arrays.
PlayerDeltas ==
    UNION {{[lc |-> lc, fields |-> f, arrays |-> a] :
               f \in {g \in [PlayerPositions -> {"absent", "int", "integral", "full"}] :
                         \A i \in PlayerPositions :
                             /\ g[i] \in PlayerFieldKinds(i)
                             /\ i > lc => g[i] = "absent"},
               a \in [1..4 -> ArrayMasks]} :
              lc \in PlayerCounts}

\* One field of a player delta on the wire.
PlayerFieldOnWire(kind, i) ==
    CASE kind = "absent" -> <<0>>
      [] kind = "int" -> <<1>> \o Bits(5, Abs(playerFieldBits[i]))
      [] kind = "integral" -> <<1, 0>> \o Bits(3, floatIntBits)
      [] kind = "full" -> <<1, 1>> \o Bits(7, 32)

RECURSIVE PlayerFieldsOnWire(_, _)
PlayerFieldsOnWire(delta, i) ==
    IF i > delta.lc THEN <<>>
    ELSE PlayerFieldOnWire(IF i \in PlayerPositions THEN delta.fields[i] ELSE "absent", i)
         \o PlayerFieldsOnWire(delta, i + 1)

\* An array of a player delta on the wire: its presence bit, its mask and a
\* value of the given width for each slot of the mask.
PlayerArrayOnWire(mask, n, width) ==
    IF mask < 0 THEN <<0>>
    ELSE <<1>> \o Bits(mask, n) \o [k \in 1..(width * PopCount(mask, n)) |-> 1]

\* A player delta on the wire, from its field count on: the arrays follow a
\* bit that says whether any of them is there.
PlayerDeltaOnWire(delta) ==
    Bits(delta.lc, 8) \o PlayerFieldsOnWire(delta, 1)
    \o (IF \A k \in 1..4 : delta.arrays[k] < 0 THEN <<0>>
        ELSE <<1>> \o PlayerArrayOnWire(delta.arrays[1], maxStats, 16)
                 \o PlayerArrayOnWire(delta.arrays[2], maxPersistant, 16)
                 \o PlayerArrayOnWire(delta.arrays[3], maxWeapons, 16)
                 \o PlayerArrayOnWire(delta.arrays[4], maxPowerups, 32))

PlayerDeltaInput(delta, tail) ==
    [op |-> "skipPlayerDelta", delta |-> delta, tail |-> tail,
     data |-> PackBits(PlayerDeltaOnWire(delta) \o tail)]

\* A delta, what follows it, and the bytes of both.
EntityDeltaInput(delta, tail) ==
    [op |-> "skipEntityDelta", delta |-> delta, tail |-> tail,
     data |-> PackBits(EntityDeltaOnWire(delta) \o tail)]

InitDelta ==
    /\ input \in {EntityDeltaInput(delta, tail) : delta \in EntityDeltas, tail \in DeltaTails}
                 \cup {PlayerDeltaInput(delta, tail) : delta \in PlayerDeltas, tail \in DeltaTails}
    /\ output = NotCalled
    /\ DiskIdle /\ PakIdle /\ DemoIdle

\* skipEntityDelta(msg) on a reader that stands at the start of the delta.
CallSkipEntityDelta ==
    /\ input.op = "skipEntityDelta"
    /\ output = NotCalled
    /\ output' = [called |-> TRUE, read |-> skipEntityDelta(NewMsgReader(input.data)).bit]
    /\ UNCHANGED <<input, zips, manifest, written, calls, configstrings, stored, pc, info>>

\* skipPlayerDelta(msg) on a reader that stands at the field count.
CallSkipPlayerDelta ==
    /\ input.op = "skipPlayerDelta"
    /\ output = NotCalled
    /\ output' = [called |-> TRUE, read |-> skipPlayerDelta(NewMsgReader(input.data)).bit]
    /\ UNCHANGED <<input, zips, manifest, written, calls, configstrings, stored, pc, info>>

NextDelta == CallSkipEntityDelta \/ CallSkipPlayerDelta

SpecDelta == InitDelta /\ [][NextDelta]_vars

\* The bits a field of an entity delta takes beyond its "changed" bit.
EntityFieldExtra(kind, i) ==
    CASE kind = "absent" -> 0
      [] kind = "zero" -> 1
      [] kind = "int" -> 1 + entityFieldBits[i]
      [] kind = "integral" -> 2 + 13
      [] kind = "full" -> 2 + 32

RECURSIVE EntityExtras(_, _)
EntityExtras(delta, positions) ==
    IF positions = {} THEN 0
    ELSE LET i == CHOOSE p \in positions : TRUE
         IN EntityFieldExtra(delta.fields[i], i) + EntityExtras(delta, positions \ {i})

\* The bits of an entity delta: one for "removed"; two for "no change";
\* else the two flags, the count, a bit for each field below the count and
\* what the changed fields take beyond it.
EntityDeltaLength(delta) ==
    CASE delta.kind = "removed" -> 1
      [] delta.kind = "same" -> 2
      [] delta.kind = "fields" -> 2 + 8 + delta.lc + EntityExtras(delta, EntityPositions)

\* C20: skipEntityDelta reads exactly the bits of one entity delta: 1 bit for
\* a removed entity, 2 for an unchanged one, else the two flags, the field
\* count and, for each field below the count, 1 bit if absent, 2 if zero,
\* 2 + width for an integer, 3 + 13 for an integral float and 3 + 32 for a
\* full float; whatever follows the delta is left unread.
C20_EntityDeltaLength ==
    output /= NotCalled /\ input.op = "skipEntityDelta" =>
        output.read = EntityDeltaLength(input.delta)

\* A delta over the whole table with a zero, an integer, an integral and a
\* full float, followed by more bits, has been skipped.
C20_Witness ==
    /\ output /= NotCalled
    /\ input.op = "skipEntityDelta"
    /\ input.delta.kind = "fields"
    /\ input.delta.lc = numEntityFields
    /\ input.delta.fields[1] = "int"
    /\ input.delta.fields[2] = "integral"
    /\ input.delta.fields[3] = "full"
    /\ input.delta.fields[10] = "zero"
    /\ input.delta.fields[18] = "absent"
    /\ input.tail /= <<>>
    /\ output.read = 2 + 8 + 51 + 33 + 15 + 34 + 1

\* The bits a field of a player delta takes beyond its "changed" bit.
PlayerFieldExtra(kind, i) ==
    CASE kind = "absent" -> 0
      [] kind = "int" -> Abs(playerFieldBits[i])
      [] kind = "integral" -> 1 + 13
      [] kind = "full" -> 1 + 32

RECURSIVE PlayerExtras(_, _)
PlayerExtras(delta, positions) ==
    IF positions = {} THEN 0
    ELSE LET i == CHOOSE p \in positions : TRUE
         IN PlayerFieldExtra(delta.fields[i], i) + PlayerExtras(delta, positions \ {i})

\* The bits of one array: its presence bit and, if present, the 16-bit mask
\* and a value for each slot of the mask.
PlayerArrayLength(mask, width) ==
    IF mask < 0 THEN 1 ELSE 1 + 16 + width * PopCount(mask, 16)

\* The bits of the four arrays, each behind its own presence bit.
PlayerArraysLength(delta) ==
    PlayerArrayLength(delta.arrays[1], 16) + PlayerArrayLength(delta.arrays[2], 16)
    + PlayerArrayLength(delta.arrays[3], 16) + PlayerArrayLength(delta.arrays[4], 32)

\* C21, as stated: skipPlayerDelta reads the field count, for each field below
\* it 1 bit if absent, 1 + |width| for an integer, 2 + 13 or 2 + 32 for a
\* float, and then the four arrays, each behind its own presence bit.
C21_PlayerDeltaLength_AsStated ==
    output /= NotCalled /\ input.op = "skipPlayerDelta" =>
        output.read = 8 + input.delta.lc + PlayerExtras(input.delta, PlayerPositions)
                      + PlayerArraysLength(input.delta)

\* C21: skipPlayerDelta reads the field count, for each field below it 1 bit
\* if absent, 1 + |width| for an integer, 2 + 13 or 2 + 32 for a float, then
\* one bit that says whether any array follows and, only if it is set, the
\* four arrays, each behind its own presence bit; what follows the delta is
\* left unread.
C21_PlayerDeltaLength ==
    output /= NotCalled /\ input.op = "skipPlayerDelta" =>
        output.read = 8 + input.delta.lc + PlayerExtras(input.delta, PlayerPositions)
                      + 1 + (IF \A k \in 1..4 : input.delta.arrays[k] < 0 THEN 0
                             ELSE PlayerArraysLength(input.delta))

\* A delta over the whole table with an integer, a full float and a signed
\* integer, no statistics, two persistent counters, an empty ammo mask and
\* two powerups, followed by more bits, has been skipped.
C21_Witness ==
    /\ output /= NotCalled
    /\ input.op = "skipPlayerDelta"
    /\ input.delta.lc = numPlayerFields
    /\ input.delta.fields[1] = "int"
    /\ input.delta.fields[2] = "full"
    /\ input.delta.fields[9] = "int"
    /\ input.delta.arrays = <<-1, 5, 0, 32769>>
    /\ input.tail /= <<>>
    /\ output.read = 8 + 48 + 32 + 33 + 16 + 1 + 1 + (17 + 32) + 17 + (17 + 64)

\* The size at the walk's position, when four bytes are left for it.
SizeAt(p) == Uint32(p.decompressed, p.pos)

\* C22: the frame walk terminates for every buffer: a step of the walk that
\* goes on reads a size that is not 0 and lies within the buffer, and moves
\* the position on by 4 + size, so the position strictly increases and stays
\* within the buffer; a size of 0, a size beyond the rest of the buffer, or
\* fewer than four bytes end the walk; and the walk does end.
C22_FrameWalkTerminates ==
    /\ [][pc.phase = "frames" =>
             /\ pc'.phase \in {"frames", "done"}
             /\ pc'.phase = "frames" =>
                    /\ pc.pos + 4 <= Len(pc.decompressed)
                    /\ SizeAt(pc) /= 0
                    /\ pc'.decompressed = pc.decompressed
                    /\ pc'.pos = pc.pos + 4 + SizeAt(pc)
                    /\ pc'.pos > pc.pos
                    /\ pc'.pos <= Len(pc.decompressed)
                    /\ Len(stored') >= Len(stored)
             /\ pc'.phase = "done" =>
                    \/ pc.pos + 4 > Len(pc.decompressed)
                    \/ SizeAt(pc) = 0
                    \/ pc.pos + 4 + SizeAt(pc) > Len(pc.decompressed)]_vars
    /\ <>(pc.phase = "done")

\* A walk over two frames has ended on a size of 0 with a frame after it, and
\* has stored the two frames' updates and nothing else.
C22_Witness ==
    /\ pc.phase = "done"
    /\ input.desc.close = "zero"
    /\ Len(input.desc.frames) = 2
    /\ stored = ExpectedStores(input.desc)
    /\ Len(stored) = 2

(***************************************************************************)
(* Texture resolution over small indexes                                   *)
(***************************************************************************)

\* The keys an index of the harness may hold: a file without an extension,
\* the three image files, a file with another extension and an image file
\* named after it.
TextureKeys ==
    { <<"t", "/", "a">>, <<"t", "/", "a", ".", "t", "g", "a">>, <<"t", "/", "a", ".", "j", "p", "g">>, <<"t", "/", "a", ".", "p", "n", "g">>, <<"t", "/", "a", ".", "b", "m", "p">>, <<"t", "/", "a", ".", "b", "m", "p", ".", "p", "n", "g">> }

\* The references that are resolved.
TexturePaths ==
    { <<"t", "/", "a">>, <<"T", "/", "A", ".", "T", "G", "A">>, <<"t", "/", "a", ".", "j", "p", "g">>, <<"t", "/", "A", ".", "p", "n", "g">>, <<"t", "/", "a", ".", "b", "m", "p">> }

InitTexture ==
    /\ input \in [path : TexturePaths,
                  fileIndex : UNION {[keys -> {<<"p", "a", "k", "0", ".", "p", "k", "3">>}] : keys \in SUBSET TextureKeys}]
    /\ output = NotCalled
    /\ DiskIdle /\ PakIdle /\ DemoIdle

\* ResolveTexture(path, fileIndex)
CallResolveTexture ==
    /\ output = NotCalled
    /\ output' = [called |-> TRUE, r |-> ResolveTexture(input.path, input.fileIndex)]
    /\ UNCHANGED <<input, zips, manifest, written, calls, configstrings, stored, pc, info>>

NextTexture == CallResolveTexture

SpecTexture == InitTexture /\ [][NextTexture]_vars

\* The path ends in one of the known image extensions.
KnownExtension(lower) == \E i \in DOMAIN textureExtensions : HasSuffix(lower, textureExtensions[i])

\* The path without its last four characters, the length of each extension.
WithoutExtension(lower) == SubSeq(lower, 1, Len(lower) - 4)

\* base.tga, base.jpg, base.png
Probes(base) == [i \in DOMAIN textureExtensions |-> base \o textureExtensions[i]]

\* The first of the candidates that is a key of the index, if there is one.
FirstPresent(candidates, keys) ==
    IF \E i \in DOMAIN candidates : candidates[i] \in keys
    THEN [ok |-> TRUE,
          path |-> candidates[CHOOSE i \in DOMAIN candidates :
                                  /\ candidates[i] \in keys
                                  /\ \A j \in 1..(i - 1) : candidates[j] \notin keys]]
    ELSE NotFound

\* C23, as stated: the lowercased path itself is tried first, whatever its
\* extension; a path with a known extension that is not found is stripped and
\* probed in the order .tga, .jpg, .png; not-found is reported only when
\* neither the path nor a probed candidate is a key; a returned path is a key.
C23_LiteralPathFirst ==
    output /= NotCalled =>
        LET lower == ToLower(input.path)
            keys == DOMAIN input.fileIndex
        IN /\ output.r = FirstPresent(<<lower>> \o Probes(IF KnownExtension(lower)
                                                          THEN WithoutExtension(lower)
                                                          ELSE lower), keys)
           /\ output.r.ok => output.r.path \in keys

\* C23: a path with a known image extension is looked up as it is,
\* lowercased, and if it is not a key it is stripped and probed as .tga, .jpg,
\* .png; a path without one is not looked up as it is, only probed with
\* .tga, .jpg, .png appended; the first candidate that is a key is returned,
\* not-found is reported when none is, and a returned path is a key.
C23_ResolveTexture ==
    output /= NotCalled =>
        LET lower == ToLower(input.path)
            keys == DOMAIN input.fileIndex
        IN /\ output.r = FirstPresent(IF KnownExtension(lower)
                                      THEN <<lower>> \o Probes(WithoutExtension(lower))
                                      ELSE Probes(lower), keys)
           /\ output.r.ok => output.r.path \in keys

\* A reference with a known extension that is no key has been resolved to the
\* second of two other image files.
C23_Witness ==
    /\ output /= NotCalled
    /\ input.path = <<"T", "/", "A", ".", "T", "G", "A">>
    /\ DOMAIN input.fileIndex = { <<"t", "/", "a">>, <<"t", "/", "a", ".", "j", "p", "g">>, <<"t", "/", "a", ".", "p", "n", "g">> }
    /\ output.r = [ok |-> TRUE, path |-> <<"t", "/", "a", ".", "j", "p", "g">>]

(***************************************************************************)
(* Shader resolution over small manifests                                  *)
(***************************************************************************)

\* The files an index of the harness may hold.
ResolveKeys == { <<"t", "e", "x", "t", "u", "r", "e", "s", "/", "s", ".", "t", "g", "a">>, <<"t", "e", "x", "t", "u", "r", "e", "s", "/", "s", ".", "j", "p", "g">>, <<"t", "e", "x", "t", "u", "r", "e", "s", "/", "x", ".", "t", "g", "a">>, <<"s", "c", "r", "i", "p", "t", "s", "/", "a", ".", "s", "h", "a", "d", "e", "r">> }

\* The shader names a manifest of the harness may define, and the texture
\* references a definition may have collected.
ResolveShaderNames == { <<"t", "e", "x", "t", "u", "r", "e", "s", "/", "s">>, <<"t", "e", "x", "t", "u", "r", "e", "s", "/", "d">> }

ResolveTextureLists ==
    { <<>>, << <<"t", "e", "x", "t", "u", "r", "e", "s", "/", "x">> >>, << <<"t", "e", "x", "t", "u", "r", "e", "s", "/", "X", ".", "t", "g", "a">>, <<"t", "e", "x", "t", "u", "r", "e", "s", "/", "n", "o", "p", "e">> >> }

\* The manifests: an index, definitions, and their script file recorded for
\* all of them or for none.
ResolveManifests ==
    UNION {UNION {{[FileIndex |-> [k \in keys |-> <<"p", "a", "k", "0", ".", "p", "k", "3">>],
                    BaselineFiles |-> {},
                    Shaders |-> shaders,
                    ShaderFiles |-> IF recorded THEN [n \in DOMAIN shaders |-> <<"s", "c", "r", "i", "p", "t", "s", "/", "a", ".", "s", "h", "a", "d", "e", "r">>]
                                    ELSE <<>>] :
                      recorded \in BOOLEAN, keys \in SUBSET ResolveKeys} :
                  shaders \in [names -> ResolveTextureLists]} :
              names \in SUBSET ResolveShaderNames}

InitResolve ==
    /\ input \in [shaderName : { <<"t", "e", "x", "t", "u", "r", "e", "s", "/", "S">>, <<"t", "e", "x", "t", "u", "r", "e", "s", "/", "d">>, <<"t", "e", "x", "t", "u", "r", "e", "s", "/", "x", ".", "t", "g", "a">> },
                  gm : ResolveManifests,
                  needed : { {}, { <<"m", "a", "p", "s", "/", "m", ".", "b", "s", "p">> } }]
    /\ output = NotCalled
    /\ DiskIdle /\ PakIdle /\ DemoIdle

\* resolveShaderTextures(shaderName, gm, needed)
CallResolveShaderTextures ==
    /\ output = NotCalled
    /\ output' = [called |-> TRUE,
                  needed |-> resolveShaderTextures(input.shaderName, input.gm, input.needed)]
    /\ UNCHANGED <<input, zips, manifest, written, calls, configstrings, stored, pc, info>>

NextResolve == CallResolveShaderTextures

SpecResolve == InitResolve /\ [][NextResolve]_vars

\* The manifest without the definition of a shader.
Undefine(gm, lower) ==
    [gm EXCEPT !.Shaders = [n \in DOMAIN gm.Shaders \ {lower} |-> gm.Shaders[n]]]

\* C24: when the referenced shader, lowercased, has a definition without
\* texture references, the need-set becomes what it would become if the name
\* had no definition (the name resolved as a texture), plus the definition's
\* script file where one is recorded.
C24_ImplicitTexture ==
    output /= NotCalled =>
        LET lower == ToLower(input.shaderName)
            gm == input.gm
        IN lower \in DOMAIN gm.Shaders /\ gm.Shaders[lower] = <<>> =>
               /\ output.needed =
                      resolveShaderTextures(input.shaderName, Undefine(gm, lower), input.needed)
                      \cup (IF lower \in DOMAIN gm.ShaderFiles THEN {gm.ShaderFiles[lower]} ELSE {})
               /\ ResolveTexture(lower, gm.FileIndex).ok =>
                      ResolveTexture(lower, gm.FileIndex).path \in output.needed

\* The shader textures/S, defined without references, has been resolved to
\* the image of its own name and its script file.
C24_Witness ==
    /\ output /= NotCalled
    /\ input.shaderName = <<"t", "e", "x", "t", "u", "r", "e", "s", "/", "S">>
    /\ <<"t", "e", "x", "t", "u", "r", "e", "s", "/", "s">> \in DOMAIN input.gm.Shaders
    /\ input.gm.Shaders[<<"t", "e", "x", "t", "u", "r", "e", "s", "/", "s">>] = <<>>
    /\ DOMAIN input.gm.FileIndex = { <<"t", "e", "x", "t", "u", "r", "e", "s", "/", "s", ".", "j", "p", "g">>, <<"t", "e", "x", "t", "u", "r", "e", "s", "/", "x", ".", "t", "g", "a">>, <<"s", "c", "r", "i", "p", "t", "s", "/", "a", ".", "s", "h", "a", "d", "e", "r">> }
    /\ input.needed = { <<"m", "a", "p", "s", "/", "m", ".", "b", "s", "p">> }
    /\ output.needed = { <<"m", "a", "p", "s", "/", "m", ".", "b", "s", "p">>, <<"t", "e", "x", "t", "u", "r", "e", "s", "/", "s", ".", "j", "p", "g">>, <<"s", "c", "r", "i", "p", "t", "s", "/", "a", ".", "s", "h", "a", "d", "e", "r">> }

(***************************************************************************)
(* Baseline classification over single paths                               *)
(***************************************************************************)

\* The paths that are classified: two files under each prefix of either list,
\* and paths that match neither.
BaselinePaths ==
    UNION {{prefix \o <<"f", ".", "t", "g", "a">>, prefix \o <<"d", "/", "a", ".", "c", "f", "g">>} :
              prefix \in Range(baselinePrefixes) \cup Range(baselineExcludePrefixes)}
    \cup { <<"q", "3", "c", "o", "n", "f", "i", "g", ".", "c", "f", "g">>, <<"a", ".", "c", "f", "g">>, <<".", "c", "f", "g">>, <<"c", "f", "g">>, <<"d", "i", "r", "/", "a", ".", "c", "f", "g">>, <<"r", "e", "a", "d", "m", "e", ".", "t", "x", "t">>,
           <<"t", "e", "x", "t", "u", "r", "e", "s", "/", "s", "f", "x">>, <<"t", "e", "x", "t", "u", "r", "e", "s", "/", "s", "f", "x", "a", "/", "x", ".", "t", "g", "a">>, <<"m", "o", "d", "e", "l", "s", "/", "m", "a", "p", "o", "b", "j", "e", "c", "t", "z", "/", "x", ".", "m", "d", "3">>,
           <<"x", "g", "f", "x", "/", "a", ".", "t", "g", "a">>, <<"a", ".", "c", "f", "g", "/", "b">>, <<"m", "o", "d", "e", "l", "s", "/", "p", "l", "a", "y", "e", "r", "s", ".", "c", "f", "g">> }

InitBaselineFile ==
    /\ input \in [lowerPath : BaselinePaths]
    /\ output = NotCalled
    /\ DiskIdle /\ PakIdle /\ DemoIdle

\* isBaselineFile(lowerPath)
CallIsBaselineFile ==
    /\ output = NotCalled
    /\ output' = [called |-> TRUE, baseline |-> isBaselineFile(input.lowerPath)]
    /\ UNCHANGED <<input, zips, manifest, written, calls, configstrings, stored, pc, info>>

NextBaselineFile == CallIsBaselineFile

SpecBaselineFile == InitBaselineFile /\ [][NextBaselineFile]_vars

\* The path starts with a prefix of the list.
MatchesPrefix(path, prefixes) == \E prefix \in Range(prefixes) : HasPrefix(path, prefix)

\* C25: a path that matches the include list is baseline; one that does not,
\* and matches the exclude list, is not; one that matches neither is baseline
\* exactly if it has no directory part and ends in .cfg.
C25_BaselineByPriority ==
    output /= NotCalled =>
        LET path == input.lowerPath
        IN /\ MatchesPrefix(path, baselinePrefixes) => output.baseline
           /\ ~MatchesPrefix(path, baselinePrefixes)
              /\ MatchesPrefix(path, baselineExcludePrefixes) => ~output.baseline
           /\ ~MatchesPrefix(path, baselinePrefixes)
              /\ ~MatchesPrefix(path, baselineExcludePrefixes) =>
                  (output.baseline <=> /\ \A i \in DOMAIN path : path[i] /= "/"
                                       /\ HasSuffix(path, <<".", "c", "f", "g">>))

\* A file under textures/sfx/, which both lists match, has been classified as
\* baseline.
C25_Witness ==
    /\ output /= NotCalled
    /\ input.lowerPath = <<"t", "e", "x", "t", "u", "r", "e", "s", "/", "s", "f", "x", "/", "f", ".", "t", "g", "a">>
    /\ MatchesPrefix(input.lowerPath, baselineExcludePrefixes)
    /\ output.baseline

(***************************************************************************)
(* Archive discovery over small game directories                           *)
(***************************************************************************)

CollectDir == <<"q", "/", "b", "a", "s", "e", "q", "3">>

\* The archives a game directory of the harness may hold.
CollectNames ==
    { <<"p", "a", "k", "0", ".", "p", "k", "3">>, <<"P", "A", "K", "1", ".", "p", "k", "3">>, <<"p", "a", "k", "2", ".", "P", "K", "3">>, <<"P", "a", "k", "2", ".", "p", "k", "3">>, <<"p", "a", "k", "0", "t", ".", "p", "k", "3">>, <<"p", "a", "k", "1", "0", ".", "p", "k", "3">>,
      <<"z", "m", "a", "p", ".", "p", "k", "3">>, <<"A", "m", "a", "p", ".", "p", "k", "3">>, <<"s", "u", "b", "/", "p", "a", "k", "5", ".", "p", "k", "3">>, <<"p", "a", "k", "a", ".", "p", "k", "3">> }

InitCollect ==
    /\ \E names \in SUBSET CollectNames :
           zips = [p \in {CollectDir \o <<"/">> \o n : n \in names} |-> <<>>]
    /\ HarnessIdle /\ PakIdle /\ DemoIdle

\* collectPk3FilesFromDir(dir)
CallCollectPk3FilesFromDir ==
    /\ output = NotCalled
    /\ output' = [called |-> TRUE, files |-> collectPk3FilesFromDir(CollectDir)]
    /\ UNCHANGED <<input, zips, manifest, written, calls, configstrings, stored, pc, info>>

NextCollect == CallCollectPk3FilesFromDir

SpecCollect == InitCollect /\ [][NextCollect]_vars

\* The archive lies in the game directory itself and its name, whatever its
\* letter case, is pak, a digit and .pk3.
MatchesPakPattern(path) ==
    LET lowerName == ToLower(Base(path))
    IN /\ Dir(path) = CollectDir
       /\ Len(lowerName) = 8
       /\ SubSeq(lowerName, 1, 3) = <<"p", "a", "k">>
       /\ IsDigit(lowerName[4])
       /\ SubSeq(lowerName, 5, 8) = <<".", "p", "k", "3">>

PakDigit(path) == Ord(Base(path)[4]) - Ord("0")

\* C26: collectPk3FilesFromDir returns every archive of the directory once;
\* those named pak, digit, .pk3 in any letter case come first, in ascending
\* order of their digits, and the others follow in lexicographic order.
C26_PakOrderAnyCase ==
    output /= NotCalled =>
        LET r == output.files
        IN /\ Range(r) = DOMAIN zips
           /\ Len(r) = Cardinality(DOMAIN zips)
           /\ \A i, j \in DOMAIN r : i < j =>
                  /\ MatchesPakPattern(r[j]) => MatchesPakPattern(r[i])
                  /\ MatchesPakPattern(r[i]) /\ MatchesPakPattern(r[j]) =>
                         PakDigit(r[i]) <= PakDigit(r[j])
                  /\ ~MatchesPakPattern(r[i]) /\ ~MatchesPakPattern(r[j]) => StrLess(r[i], r[j])

(***************************************************************************)
(* Brace depth of ParseShaderScript over scripts of single-token lines     *)
(***************************************************************************)

\* Most lines of a script.
MaxLines == 5

\* The lines of a script: a brace, a name or a directive.
BraceLines == { <<"{">>, <<"}">>, <<"t", "/", "s", "1">>, <<"t", "/", "s", "2">>, <<"m", "a", "p", " ", "t", "/", "a", ".", "t", "g", "a">> }

InitBraces ==
    /\ input \in [lines : SeqsUpTo(BraceLines, MaxLines)]
    /\ output = NotCalled
    /\ DiskIdle /\ PakIdle /\ DemoIdle

\* shaders, current and depth after the first k lines of the script.
AfterLines(lines, k) ==
    ParseLines([shaders |-> <<>>, current |-> NoDef, depth |-> 0, inBlockComment |-> FALSE],
               SubSeq(lines, 1, k))

\* ParseShaderScript(r), with its local state at the end of each iteration of
\* the loop over the lines.
CallParseShaderScriptLines ==
    /\ output = NotCalled
    /\ output' = [called |-> TRUE,
                  defs |-> ParseShaderScript(input.lines),
                  after |-> [k \in 0..Len(input.lines) |-> AfterLines(input.lines, k)]]
    /\ UNCHANGED <<input, zips, manifest, written, calls, configstrings, stored, pc, info>>

NextBraces == CallParseShaderScriptLines

SpecBraces == InitBraces /\ [][NextBraces]_vars

\* The line is a name or a directive, not a brace.
IsContent(line) == line /= <<"{">> /\ line /= <<"}">>

\* The text before the brace of line k: the content line right before it.
NameBefore(lines, k) == IF k > 1 /\ IsContent(lines[k - 1]) THEN lines[k - 1] ELSE <<>>

\* C27: a line that takes the brace depth from 0 to 1 starts a definition
\* named by the text before the brace; a line that takes it from 1 to 0
\* commits the definition in progress; and the depth is never below 0, also
\* in scripts with a stray closing brace or a block without a name.
C27_BraceDepth ==
    output /= NotCalled =>
        \A k \in 1..Len(input.lines) :
            LET before == output.after[k - 1]
                after == output.after[k]
            IN /\ after.depth >= 0
               /\ before.depth = 0 /\ after.depth = 1 =>
                      /\ after.current.set
                      /\ after.current.Name = NameBefore(input.lines, k)
               /\ before.depth = 1 /\ after.depth = 0 =>
                      /\ before.current.set
                      /\ after.shaders = Append(before.shaders, before.current)
                      /\ after.current = NoDef

\* The definitions in the script file the game's index provides under the path.
ProvidedDefs(gm, script) ==
    LET Parse(read) == IF read.err THEN <<>> ELSE ParseShaderScript(ScriptLines(read.data))
    IN Parse(readFileFromIndex(script, gm.FileIndex))

\* The last definition of the shader among defs has the texture list.
DefinesAs(defs, lower, textures) ==
    LET hits == {k \in DOMAIN defs : ToLower(defs[k].Name) = lower}
    IN /\ hits /= {}
       /\ defs[CHOOSE k \in hits : \A j \in hits : j <= k].Textures = textures

\* C28: when the geometry of a packaged map references a shader with a known
\* definition, the script file the need-set gets for it, as the game's index
\* provides it, contains a definition of that shader, and the recorded texture
\* list is the one of that file; also when a later archive overrides the
\* script path with a file that omits the shader.
C28_ScriptFileHoldsDefinition ==
    \A i \in DOMAIN calls :
        \A lower \in GeometryShaderNames(i) :
            (calls[i].ret = "ok" /\ lower \in DOMAIN manifest[calls[i].game].Shaders) =>
                /\ manifest[calls[i].game].ShaderFiles[lower] \in calls[i].resolved
                /\ DefinesAs(ProvidedDefs(manifest[calls[i].game],
                                          manifest[calls[i].game].ShaderFiles[lower]),
                             lower, manifest[calls[i].game].Shaders[lower])

\* C29: two calls of BuildMapPak for the same game whose map names differ only
\* in letter case compute the same need-set, before and after the baseline is
\* taken out, the level preview image and the arena file included.
C29_MapNameCaseIgnored ==
    \A i, j \in DOMAIN calls :
        (calls[i].game = calls[j].game /\ ToLower(calls[i].mapName) = ToLower(calls[j].mapName)) =>
            /\ calls[i].resolved = calls[j].resolved
            /\ calls[i].needed = calls[j].needed

\* The names of the entries of an archive.
EntryNames(archive) == {archive[k].Name : k \in DOMAIN archive}

\* C30: for a manifest BuildBaseline produced, every path of the need-set a
\* call of BuildMapPak resolves is a lowercase key of the game's file index,
\* and the entries of the archive it writes are exactly the need-set without
\* the game's Baseline Set; nothing is written when that set is empty.
C30_WrittenIsNeedSetMinusBaseline ==
    \A i \in PakCalls :
        calls[i].ret = "ok" =>
            /\ calls[i].resolved \subseteq DOMAIN manifest[calls[i].game].FileIndex
            /\ \A p \in calls[i].resolved : p = ToLower(p)
            /\ calls[i].needed = calls[i].resolved \ manifest[calls[i].game].BaselineFiles
            /\ calls[i].wrote = (calls[i].needed /= {})
            /\ calls[i].wrote =>
                   /\ EntryNames(calls[i].archive) = calls[i].needed
                   /\ calls[i].outputPath \in DOMAIN written

\* Map m2 packaged from the custom archive: its script file and a texture stored
\* under an upper-case name are written, its baseline paths are not.
C30_Witness ==
    \E i \in PakCalls :
        /\ calls[i].ret = "ok" /\ calls[i].wrote
        /\ <<"s", "c", "r", "i", "p", "t", "s", "/", "z", ".", "s", "h", "a", "d", "e", "r">> \in EntryNames(calls[i].archive)
        /\ calls[i].resolved \ calls[i].needed /= {}
        /\ \E j \in PakCalls :
               /\ calls[j].wrote
               /\ <<"t", "e", "x", "t", "u", "r", "e", "s", "/", "d", ".", "t", "g", "a">> \in EntryNames(calls[j].archive)

=============================================================================
